---- MODULE Spec2Model ----
(***************************************************************************)
(* Layout-to-Angular code generator: Design IR converter, component        *)
(* mapping table, response parser, archetype resolver, the code-generation *)
(* pipeline (generateAngularCode / testPipeline) and the layout endpoint.  *)
(*                                                                         *)
(* JavaScript values are encoded uniformly: a missing property is the      *)
(* string UNDEF, null is NULLV, a truthy non-string value is NUM.  Text    *)
(* (a model reply, an artifact's content) is a sequence of tokens; the     *)
(* regular expressions of the parser are evaluated on that sequence.       *)
(***************************************************************************)
EXTENDS Integers, Sequences, FiniteSets, TLC

VARIABLES
    pc,               \* position of the running handler
    mode,             \* "full" (generateAngularCode) or "test" (testPipeline)
    figmaLayoutJSON,  \* the handler's layout argument
    requestNode,      \* the figmaNode the code-generation request carries
    mappingTable,     \* the contents of the COMPONENT_MAPPING object
    screenNameArg,    \* the handler's screenName argument, before defaulting
    result,           \* the handler's result object
    outcome,          \* "pending", "returned" or "threw"
    geminiResponse,   \* the text the backend (or the mock generator) produced
    backendCalls,     \* number of calls made to the generative backend
    call,             \* the library call of the lookup specifications
    layoutDoc,        \* the layout document of the layout endpoint
    responses         \* the HTTP responses the layout endpoint has sent

layoutVars == <<layoutDoc, responses>>

vars == <<pc, mode, figmaLayoutJSON, requestNode, mappingTable, screenNameArg, result, outcome,
          geminiResponse, backendCalls, call, layoutDoc, responses>>

-----------------------------------------------------------------------------
(* Bounds *)

MaxComps == 3      \* longest components sequence of a layout document
MaxBlocks == 3     \* most blocks concatenated into one model reply
MaxSections == 2   \* most sections of a layout document
MaxSectionComps == 2  \* most components of one section

-----------------------------------------------------------------------------
(* JavaScript values *)

UNDEF == "undefined"
NULLV == "null"
NUM == "<number>"

Falsy(v) == v \in {UNDEF, NULLV, ""}

Min(S) == CHOOSE m \in S : \A n \in S : m <= n

\* Properties every object literal inherits from Object.prototype.
ObjectPrototypeKeys ==
    {"constructor", "toString", "valueOf", "hasOwnProperty", "__proto__"}

\* obj[key] on an object literal with the given own keys:
\* "own", "inherited" (a truthy function or object) or "undefined".
JSLookup(ownKeys, key) ==
    IF key \in ownKeys THEN "own"
    ELSE IF key \in ObjectPrototypeKeys THEN "inherited"
    ELSE "undefined"

Ok(v) == [ok |-> TRUE, val |-> v, err |-> ""]
Throw(v, msg) == [ok |-> FALSE, val |-> v, err |-> msg]

-----------------------------------------------------------------------------
(* Design IR converter (design-ir.js) *)

\* The allow-list with one more key.
ALLOWED_COMPONENT_KEYS_withCustom ==
    <<"primary_button", "secondary_button", "primary_icon_button",
      "default_blankslate", "wrapped_description", "text_input",
      "card_container", "heading", "description", "custom_widget">>

ALLOWED_COMPONENT_KEYS ==
    <<"primary_button", "secondary_button", "primary_icon_button",
      "default_blankslate", "wrapped_description", "text_input",
      "card_container", "heading", "description">>

AllowedKeys == {ALLOWED_COMPONENT_KEYS[i] : i \in 1..Len(ALLOWED_COMPONENT_KEYS)}

IRComponent(type, text, label, inputType, variant) ==
    [type |-> type, text |-> text, label |-> label,
     inputType |-> inputType, variant |-> variant]

NoComponent == IRComponent(UNDEF, UNDEF, UNDEF, UNDEF, UNDEF)

\* a || b without the fallback: the left operand whatever its truthiness.
OrElse_keepFalsy(a, b) == a

\* a || b
OrElse(a, b) == IF Falsy(a) THEN b ELSE a

convertFigmaComponentToIR_passKey(c) ==
    IF c.isNull
    THEN Throw(NoComponent, "Cannot read properties of null (reading 'componentKey')")
    ELSE LET text == OrElse(c.text, "") IN
         CASE c.componentKey = "heading" ->
                Ok(IRComponent("heading", OrElse(text, "Heading"), UNDEF, UNDEF, UNDEF))
           [] c.componentKey \in {"description", "wrapped_description"} ->
                Ok(IRComponent("text", OrElse(text, "Description text"), UNDEF, UNDEF, UNDEF))
           [] c.componentKey = "text_input" ->
                Ok(IRComponent("input", UNDEF, OrElse(text, "Input"), "text", UNDEF))
           [] c.componentKey = "primary_button" ->
                Ok(IRComponent("button", OrElse(text, "Button"), UNDEF, UNDEF, "primary"))
           [] c.componentKey = "secondary_button" ->
                Ok(IRComponent("button", OrElse(text, "Button"), UNDEF, UNDEF, "secondary"))
           [] c.componentKey = "card_container" ->
                Ok(IRComponent("container", UNDEF, UNDEF, UNDEF, "card"))
           [] OTHER ->
                Ok(IRComponent(c.componentKey, OrElse(text, "Unknown component"),
                               UNDEF, UNDEF, UNDEF))

convertFigmaComponentToIR(c) ==
    IF c.isNull
    THEN Throw(NoComponent, "Cannot read properties of null (reading 'componentKey')")
    ELSE LET text == OrElse(c.text, "") IN
         CASE c.componentKey = "heading" ->
                Ok(IRComponent("heading", OrElse(text, "Heading"), UNDEF, UNDEF, UNDEF))
           [] c.componentKey \in {"description", "wrapped_description"} ->
                Ok(IRComponent("text", OrElse(text, "Description text"), UNDEF, UNDEF, UNDEF))
           [] c.componentKey = "text_input" ->
                Ok(IRComponent("input", UNDEF, OrElse(text, "Input"), "text", UNDEF))
           [] c.componentKey = "primary_button" ->
                Ok(IRComponent("button", OrElse(text, "Button"), UNDEF, UNDEF, "primary"))
           [] c.componentKey = "secondary_button" ->
                Ok(IRComponent("button", OrElse(text, "Button"), UNDEF, UNDEF, "secondary"))
           [] c.componentKey = "card_container" ->
                Ok(IRComponent("container", UNDEF, UNDEF, UNDEF, "card"))
           [] OTHER ->
                Ok(IRComponent("text", OrElse(text, "Unknown component"),
                               UNDEF, UNDEF, UNDEF))

Tokens(primaryColor, spacing, borderRadius, fontSize) ==
    [primaryColor |-> primaryColor, spacing |-> spacing,
     borderRadius |-> borderRadius, fontSize |-> fontSize]

\* The tokens with the spacing tiers of mobile and desktop exchanged.
extractDesignTokens_tiersSwapped(layout) ==
    IF layout.screenType = "mobile" THEN Tokens("primary-500", "lg", "md", "base")
    ELSE IF layout.screenType = "desktop" THEN Tokens("primary-500", "sm", "md", "lg")
    ELSE Tokens("primary-500", "md", "md", UNDEF)

extractDesignTokens(layout) ==
    IF layout.screenType = "mobile" THEN Tokens("primary-500", "sm", "md", "base")
    ELSE IF layout.screenType = "desktop" THEN Tokens("primary-500", "lg", "md", "lg")
    ELSE Tokens("primary-500", "md", "md", UNDEF)

DesignIR(isNull, screenName, layout, components, tokens) ==
    [isNull |-> isNull, screenName |-> screenName, layout |-> layout,
     components |-> components, tokens |-> tokens]

NoDesignIR == DesignIR(TRUE, UNDEF, UNDEF, <<>>, Tokens(UNDEF, UNDEF, UNDEF, UNDEF))

\* figmaLayoutJSON.components.map(convertFigmaComponentToIR): the first
\* element whose conversion raises ends the map.
RECURSIVE MapComponents(_, _)
MapComponents(cs, acc) ==
    IF cs = <<>> THEN Ok(acc)
    ELSE LET r == convertFigmaComponentToIR(Head(cs)) IN
         IF r.ok THEN MapComponents(Tail(cs), Append(acc, r.val))
         ELSE Throw(<<>>, r.err)

\* A conversion that lays out every screen type but mobile horizontally, with
\* the tokens of the desktop tier.
convertToDesignIR_wideUnlessMobile(layout, screenName) ==
    IF layout.isNull \/ layout.componentsKind # "array"
    THEN Throw(NoDesignIR, "Invalid Figma layout JSON provided")
    ELSE LET m == MapComponents(layout.components, <<>>) IN
         IF ~m.ok THEN Throw(NoDesignIR, m.err)
         ELSE Ok(DesignIR(FALSE, screenName,
                          IF layout.screenType = "mobile" THEN "vertical" ELSE "horizontal",
                          m.val,
                          IF layout.screenType = "mobile" THEN extractDesignTokens(layout)
                          ELSE Tokens("primary-500", "lg", "md", "lg")))

\* A layout document: isNull, or an object whose components property is
\* "missing", an "array" (of component records) or a truthy "object" that is
\* not an array.
convertToDesignIR(layout, screenName) ==
    IF layout.isNull \/ layout.componentsKind = "missing"
    THEN Throw(NoDesignIR, "Invalid Figma layout JSON provided")
    ELSE IF layout.componentsKind # "array"
    THEN Throw(NoDesignIR, "figmaLayoutJSON.components.map is not a function")
    ELSE LET m == MapComponents(layout.components, <<>>) IN
         IF ~m.ok THEN Throw(NoDesignIR, m.err)
         ELSE Ok(DesignIR(FALSE, screenName,
                          IF layout.screenType = "desktop" THEN "horizontal" ELSE "vertical",
                          m.val, extractDesignTokens(layout)))

validateDesignIR(ir) ==
    IF Falsy(ir.screenName) THEN Throw(FALSE, "Missing required field: screenName")
    ELSE IF Falsy(ir.layout) THEN Throw(FALSE, "Missing required field: layout")
    ELSE IF \E i \in 1..Len(ir.components) : Falsy(ir.components[i].type)
    THEN Throw(FALSE, "Component at index missing type field")
    ELSE Ok(TRUE)

-----------------------------------------------------------------------------
(* Component mapping table (component-mapping.js) *)

MappingEntry(tag, attributes, content, imports) ==
    [tag |-> tag, attributes |-> attributes, content |-> content, imports |-> imports]

\* The table as the module builds it at start-up.
COMPONENT_MAPPING ==
    [heading   |-> MappingEntry("h1", {}, "{{text}}", <<>>),
     text      |-> MappingEntry("p", {"class"}, "{{text}}", <<>>),
     input     |-> MappingEntry("p-inputText", {"type", "placeholder", "[(ngModel)]"},
                                NULLV, <<"InputTextModule">>),
     button    |-> MappingEntry("p-button", {"label", "severity", "(click)"},
                                NULLV, <<"ButtonModule">>),
     container |-> MappingEntry("div", {"class"}, "<!-- Container content -->", <<>>)]

\* { ...f } of a function or of Object.prototype: an object without own keys.
EmptyObject == MappingEntry(UNDEF, {}, UNDEF, <<>>)

MappingTruthy(type) == JSLookup(DOMAIN COMPONENT_MAPPING, type) # "undefined"

getComponentMapping(componentType) ==
    IF ~MappingTruthy(componentType)
    THEN Throw(EmptyObject, "No mapping found for component type: " \o componentType)
    ELSE IF componentType \in DOMAIN COMPONENT_MAPPING
    THEN Ok(mappingTable[componentType])
    ELSE Ok(EmptyObject)

\* The imports collected in an array instead of a Set.
getRequiredImports_array(components) ==
    LET RECURSIVE each(_, _)
        added(m, cs, acc) ==
            IF ~m.ok THEN Throw(<<>>, m.err) ELSE each(cs, acc \o m.val.imports)
        each(cs, acc) ==
            IF cs = <<>> THEN Ok(acc)
            ELSE added(getComponentMapping(Head(cs).type), Tail(cs), acc)
    IN each(components, <<>>)

\* imports is a Set: Array.from gives insertion order, first occurrence kept.
getRequiredImports(components) ==
    LET RECURSIVE addAll(_, _)
        addAll(acc, xs) ==
            IF xs = <<>> THEN acc
            ELSE addAll(IF \E i \in 1..Len(acc) : acc[i] = Head(xs) THEN acc
                        ELSE Append(acc, Head(xs)), Tail(xs))
        RECURSIVE each(_, _)
        added(m, cs, acc) ==
            IF ~m.ok THEN Throw(<<>>, m.err) ELSE each(cs, addAll(acc, m.val.imports))
        each(cs, acc) ==
            IF cs = <<>> THEN Ok(acc)
            ELSE added(getComponentMapping(Head(cs).type), Tail(cs), acc)
    IN each(components, <<>>)

validateComponentMappings(components) ==
    IF \E i \in 1..Len(components) : ~MappingTruthy(components[i].type)
    THEN Throw(FALSE, "Unmapped components found")
    ELSE Ok(TRUE)

-----------------------------------------------------------------------------
(* Text: a sequence of tokens *)

FENCE == "<fence>"     \* three backticks
NL == "\n"

Languages == <<"typescript", "html", "scss">>
LanguageSet == {"typescript", "html", "scss"}

getFileExtension(language) ==
    CASE language = "typescript" -> "ts"
      [] language = "html" -> "html"
      [] language = "scss" -> "scss"
      [] language = "css" -> "css"
      [] OTHER -> "txt"

\* A filename comment "<open> <componentName>.component.<ext>", per comment
\* style: "//", "<!--" or "/*".
FileComment(style, language) ==
    style \o " <name>.component." \o getFileExtension(language)

\* Tokens of a well-formed artifact
TsImport == "import { Component } from '@angular/core';"
TsDecorator == "@Component({ selector: 'app-x', templateUrl: './x.component.html' })"
TsStyleUrl == "styleUrl: './x.component.scss'"
TsStyleUrls == "styleUrls: ['./x.component.scss']"
ExportClass(name) == "export class " \o name \o "Component {}"
HtmlDiv == "<div class='x-container'></div>"
HtmlPlainButton == "<button>Go</button>"
HtmlPButton == "<p-button label='Go'></p-button>"
HtmlPInput == "<p-inputText type='text'></p-inputText>"
ScssRule == ".x-container { display: flex; }"
Prose == "Here's the Angular component code:"
Padding == "The component below follows the Angular style guide and uses PrimeNG widgets for every control."

\* String.prototype.length: the characters of the tokens; a fence is three.
RECURSIVE Length(_)
Length(text) ==
    IF text = <<>> THEN 0
    ELSE (IF Head(text) = FENCE THEN 3 ELSE Len(Head(text))) + Length(Tail(text))

\* String.prototype.trim: the text without the white space at its two ends.
Trim(text) ==
    LET inner == {i \in 1..Len(text) : text[i] \notin {NL, " "}} IN
    IF inner = {} THEN <<>>
    ELSE SubSeq(text, Min(inner), CHOOSE j \in inner : \A k \in inner : k <= j)

\* content.includes(needle), by the tokens that contain the needle
Includes(text, needle) ==
    LET tokenIncludes(tok) ==
            CASE needle = "@Component" -> tok = TsDecorator
              [] needle = "import" -> tok = TsImport
              [] needle = "@angular/core" -> tok = TsImport
              [] needle = "button" -> tok \in {HtmlPlainButton, HtmlPButton}
              [] needle = "p-button" -> tok = HtmlPButton
              [] needle = "p-inputText" -> tok = HtmlPInput
              [] needle = "p-password" -> FALSE
              [] OTHER -> tok = needle
    IN \E i \in 1..Len(text) : tokenIncludes(text[i])

\* /export\s+class\s+(\w+)/
MatchesExportClass(text) ==
    \E i \in 1..Len(text) :
        \E n \in {"Login", "A(", "GeneratedScreen", "TestScreen", ""} :
            text[i] = ExportClass(n)

\* String.prototype.toLowerCase
toLowerCase(s) ==
    CASE s = "Login" -> "login"
      [] s = "A(" -> "a("
      [] s = "GeneratedScreen" -> "generatedscreen"
      [] s = "TestScreen" -> "testscreen"
      [] OTHER -> s

\* new RegExp(...) with the name interpolated raises on an unbalanced group.
RegexSafe(name) == name # "A("

-----------------------------------------------------------------------------
(* Response parser (code-output-handler.js) *)

NoMatch == [found |-> FALSE, group |-> <<>>]
Match(g) == [found |-> TRUE, group |-> g]

\* /<fence><language>([\s\S]*?)<fence>/i : leftmost labelled opening fence
\* that has a later fence, up to the nearest later fence.
MatchLabelled(response, language) ==
    LET starts == {i \in 1..Len(response) :
                     /\ response[i] = FENCE
                     /\ i + 1 <= Len(response)
                     /\ response[i + 1] = language
                     /\ \E j \in (i + 2)..Len(response) : response[j] = FENCE}
    IN IF starts = {} THEN NoMatch
       ELSE LET i == Min(starts)
                j == Min({k \in (i + 2)..Len(response) : response[k] = FENCE})
            IN Match(SubSeq(response, i + 2, j - 1))

\* /<fence>([\s\S]*?)<fence>.*<language>/i : leftmost fence that has a later
\* fence followed on its line by the language name; up to the nearest such.
MatchFollowedByLanguage(response, language) ==
    LET languageAfter(j) ==
            \E k \in (j + 1)..Len(response) :
                /\ response[k] = language
                /\ \A n \in (j + 1)..(k - 1) : response[n] # NL
        ends(i) == {j \in (i + 1)..Len(response) :
                      response[j] = FENCE /\ languageAfter(j)}
        starts == {i \in 1..Len(response) : response[i] = FENCE /\ ends(i) # {}}
    IN IF starts = {} THEN NoMatch
       ELSE LET i == Min(starts) IN Match(SubSeq(response, i + 1, Min(ends(i)) - 1))

\* /<open> <componentName>.*\.component\.<ext>([\s\S]*?)(?=<fence>|$)/i :
\* leftmost filename comment, up to the next fence or the end of the text.
MatchFileComment(response, style, language) ==
    LET starts == {i \in 1..Len(response) : response[i] = FileComment(style, language)}
    IN IF starts = {} THEN NoMatch
       ELSE LET i == Min(starts)
                stops == {k \in (i + 1)..Len(response) : response[k] = FENCE}
                j == IF stops = {} THEN Len(response) + 1 ELSE Min(stops)
            IN Match(SubSeq(response, i + 1, j - 1))

\* The alternative patterns with the filename comments tried before the
\* fenced block followed by the language name.
AltPatternsMatch_commentFirst(response, language) ==
    LET first(a, b, c, d) ==
            IF a.found THEN a ELSE IF b.found THEN b ELSE IF c.found THEN c ELSE d
    IN first(MatchFileComment(response, "//", language),
             MatchFileComment(response, "<!--", language),
             MatchFileComment(response, "/*", language),
             MatchFollowedByLanguage(response, language))

\* for (const pattern of altPatterns) { match = ...; if (match) break; }
AltPatternsMatch(response, language) ==
    LET first(a, b, c, d) ==
            IF a.found THEN a ELSE IF b.found THEN b ELSE IF c.found THEN c ELSE d
    IN first(MatchFollowedByLanguage(response, language),
             MatchFileComment(response, "//", language),
             MatchFileComment(response, "<!--", language),
             MatchFileComment(response, "/*", language))

\* content.replace(/styleUrl:\s*['"`]([^'"`]+)['"`]/g, "styleUrls: ['$1']")
fixAngularSyntax(content) ==
    [i \in 1..Len(content) |-> IF content[i] = TsStyleUrl THEN TsStyleUrls ELSE content[i]]

File(isNull, fileName, content, language) ==
    [isNull |-> isNull, fileName |-> fileName, content |-> content,
     language |-> language, size |-> Length(content)]

NoFile == File(TRUE, UNDEF, <<>>, UNDEF)

\* The extraction with the syntax repair applied to every language.
extractCodeBlock_fixAll(response, language, componentName) ==
    LET fileOf(trimmed) ==
            IF componentName \in {NULLV, UNDEF}
            THEN Throw(NoFile, "Cannot read properties of " \o componentName
                               \o " (reading 'toLowerCase')")
            ELSE Ok(File(FALSE,
                         toLowerCase(componentName) \o ".component."
                             \o getFileExtension(language),
                         fixAngularSyntax(trimmed),
                         language))
        matched(match) ==
            IF ~match.found
            THEN Throw(NoFile, "No " \o language \o " code block found")
            ELSE fileOf(Trim(match.group))
        labelled(m1) ==
            IF m1.found THEN matched(m1)
            ELSE IF ~RegexSafe(componentName)
            THEN Throw(NoFile, "Invalid regular expression: Unterminated group")
            ELSE matched(AltPatternsMatch(response, language))
    IN labelled(MatchLabelled(response, language))

extractCodeBlock(response, language, componentName) ==
    LET fileOf(trimmed) ==
            IF componentName \in {NULLV, UNDEF}
            THEN Throw(NoFile, "Cannot read properties of " \o componentName
                               \o " (reading 'toLowerCase')")
            ELSE Ok(File(FALSE,
                         toLowerCase(componentName) \o ".component."
                             \o getFileExtension(language),
                         IF language = "typescript"
                         THEN fixAngularSyntax(trimmed) ELSE trimmed,
                         language))
        matched(match) ==
            IF ~match.found
            THEN Throw(NoFile, "No " \o language \o " code block found")
            ELSE fileOf(Trim(match.group))
        labelled(m1) ==
            IF m1.found THEN matched(m1)
            ELSE IF ~RegexSafe(componentName)
            THEN Throw(NoFile, "Invalid regular expression: Unterminated group")
            ELSE matched(AltPatternsMatch(response, language))
    IN labelled(MatchLabelled(response, language))

validateTypeScriptComponent(content, errors) ==
    LET e1 == IF ~Includes(content, "@Component")
              THEN Append(errors, "TypeScript file missing @Component decorator")
              ELSE errors
        e2 == IF ~MatchesExportClass(content)
              THEN Append(e1, "TypeScript file missing export class") ELSE e1
    IN IF ~Includes(content, "import") \/ ~Includes(content, "@angular/core")
       THEN Append(e2, "TypeScript file missing Angular imports") ELSE e2

MinHtmlLength == 10

\* The template validation with the button tag as the only library tag.
validateHtmlTemplate_buttonOnly(content, errors) ==
    LET e1 == IF Length(content) < MinHtmlLength
              THEN Append(errors, "HTML template appears to be too short") ELSE errors
    IN IF ~Includes(content, "p-button") /\ Includes(content, "button")
       THEN Append(e1, "HTML may be missing PrimeNG components") ELSE e1

validateHtmlTemplate(content, errors) ==
    LET e1 == IF Length(content) < MinHtmlLength
              THEN Append(errors, "HTML template appears to be too short") ELSE errors
        hasPrimeNg == \E comp \in {"p-button", "p-inputText", "p-password"} :
                         Includes(content, comp)
    IN IF ~hasPrimeNg /\ Includes(content, "button")
       THEN Append(e1, "HTML may be missing PrimeNG components") ELSE e1

Files(typescript, html, scss, errors) ==
    [typescript |-> typescript, html |-> html, scss |-> scss, errors |-> errors]

NoFiles == Files(NoFile, NoFile, NoFile, <<>>)

validateExtractedFiles(files) ==
    LET RECURSIVE required(_, _)
        required(types, errors) ==
            IF types = <<>> THEN errors
            ELSE required(Tail(types),
                   IF files[Head(types)].isNull
                   THEN Append(errors, "Missing " \o Head(types) \o " file")
                   ELSE IF files[Head(types)].content = <<>>
                   THEN Append(errors, "Empty " \o Head(types) \o " file content")
                   ELSE errors)
        typescript(e1) ==
            IF ~files.typescript.isNull /\ files.typescript.content # <<>>
            THEN validateTypeScriptComponent(files.typescript.content, e1) ELSE e1
        html(e2) ==
            IF ~files.html.isNull /\ files.html.content # <<>>
            THEN validateHtmlTemplate(files.html.content, e2) ELSE e2
    IN [files EXCEPT !.errors = html(typescript(required(Languages, files.errors)))]

\* The three extractions and the validation share one try block: the first
\* extraction that raises ends them all.
parseGeminiResponse(geminiResponseText, componentName) ==
    LET caught(files, e) ==
            [files EXCEPT !.errors = Append(@, "Parsing error: " \o e.err)]
        tried(ts, h, s) ==
            IF ~ts.ok THEN caught(NoFiles, ts)
            ELSE IF ~h.ok THEN caught([NoFiles EXCEPT !.typescript = ts.val], h)
            ELSE IF ~s.ok
            THEN caught([NoFiles EXCEPT !.typescript = ts.val, !.html = h.val], s)
            ELSE validateExtractedFiles(
                     [NoFiles EXCEPT !.typescript = ts.val, !.html = h.val,
                                     !.scss = s.val])
    IN tried(extractCodeBlock(geminiResponseText, "typescript", componentName),
             extractCodeBlock(geminiResponseText, "html", componentName),
             extractCodeBlock(geminiResponseText, "scss", componentName))

\* The export list with an entry for every artifact that is not null.
prepareFilesForExport_anyPresent(files) ==
    LET outputDir == "./src/app/components"
        RECURSIVE export(_)
        export(types) ==
            IF types = <<>> THEN <<>>
            ELSE (IF ~files[Head(types)].isNull
                  THEN <<[path |-> outputDir \o "/" \o files[Head(types)].fileName,
                          content |-> files[Head(types)].content,
                          type |-> Head(types)]>>
                  ELSE <<>>) \o export(Tail(types))
    IN export(Languages)

prepareFilesForExport(files) ==
    LET outputDir == "./src/app/components"
        RECURSIVE export(_)
        export(types) ==
            IF types = <<>> THEN <<>>
            ELSE (IF ~files[Head(types)].isNull /\ files[Head(types)].content # <<>>
                  THEN <<[path |-> outputDir \o "/" \o files[Head(types)].fileName,
                          content |-> files[Head(types)].content,
                          type |-> Head(types)]>>
                  ELSE <<>>) \o export(Tail(types))
    IN export(Languages)

generateParsingSummary(files) ==
    LET present == {t \in LanguageSet : ~files[t].isNull} IN
    [isNull |-> FALSE,
     success |-> files.errors = <<>>,
     filesExtracted |-> Cardinality(present),
     errors |-> files.errors]

NoSummary == [isNull |-> TRUE, success |-> FALSE, filesExtracted |-> 0, errors |-> <<>>]

-----------------------------------------------------------------------------
(* Code-generation pipeline (code-generator-pipeline.js) *)

\* A result object: fields is the set of properties the object has.
Result(fields, success, designIR, generatedFiles, summary, errors, error, exportFiles) ==
    [fields |-> fields, success |-> success, designIR |-> designIR,
     generatedFiles |-> generatedFiles, summary |-> summary, errors |-> errors,
     error |-> error, exportFiles |-> exportFiles]

\* const result = { success: false, designIR: null, ... errors: [] }
NewResult ==
    Result({"success", "designIR", "generatedFiles", "summary", "errors", "inputInference"},
           FALSE, NoDesignIR, NoFiles, NoSummary, <<>>, UNDEF, <<>>)

\* screenName = "GeneratedScreen" / "TestScreen" when the argument is undefined
ScreenName(m, arg) ==
    IF arg = UNDEF THEN (IF m = "full" THEN "GeneratedScreen" ELSE "TestScreen") ELSE arg

\* The stages of generateAngularCode that lie inside its try block.
generateAngularCode_tryStages_logFirst ==
    {"convert", "mappings", "prompt", "callGemini", "awaitGemini", "parse", "export"}

generateAngularCode_tryStages ==
    {"start", "convert", "mappings", "prompt", "callGemini", "awaitGemini", "parse", "export"}

\* The stages of testPipeline that lie inside its try block.
testPipeline_tryStages == {"convert", "mock", "parse"}

generateAngularCode_catch_noPush(r, msg) == [r EXCEPT !.success = FALSE]

\* catch (error) { result.errors.push(...); result.success = false; }
generateAngularCode_catch(r, msg) ==
    [r EXCEPT !.errors = Append(@, "Pipeline error: " \o msg), !.success = FALSE]

\* catch (error) { return { success: false, error: error.message, stage2Enabled } }
testPipeline_catch(msg) ==
    Result({"success", "error", "stage2Enabled"},
           FALSE, NoDesignIR, NoFiles, NoSummary, <<>>, msg, <<>>)

\* An exception raised at a stage: handled by the catch block when the stage
\* is inside the try block, leaving the handler otherwise.
Raise(stage, r, msg) ==
    /\ pc' = "done"
    /\ IF stage \in (IF mode = "full" THEN generateAngularCode_tryStages
                    ELSE testPipeline_tryStages)
       THEN /\ outcome' = "returned"
            /\ result' = IF mode = "full" THEN generateAngularCode_catch(r, msg)
                         ELSE testPipeline_catch(msg)
       ELSE /\ outcome' = "threw"
            /\ result' = r

Return(r) ==
    /\ pc' = "done"
    /\ outcome' = "returned"
    /\ result' = r

\* generateMockProperties / generateMockMethods call toLowerCase / replace on
\* the label of every input and the text of every button.
MockRaises(components) ==
    \E i \in 1..Len(components) :
        \/ components[i].type = "input" /\ components[i].label = NUM
        \/ components[i].type = "button" /\ components[i].text = NUM

HtmlDivOpen == "<div class='x-container'>"
HtmlDivClose == "</div>"

RECURSIVE generateMockTemplate(_)
generateMockTemplate(components) ==
    IF components = <<>> THEN <<>>
    ELSE LET t == Head(components).type
             line == CASE t = "heading" -> <<"<h1>{{text}}</h1>", NL>>
                       [] t = "text" -> <<"<p class='text-content'>{{text}}</p>", NL>>
                       [] t = "input" -> <<HtmlPInput, NL>>
                       [] t = "button" -> <<HtmlPButton, NL>>
                       [] OTHER -> <<>>
         IN line \o generateMockTemplate(Tail(components))

\* The mock reply with the class named after the lower-cased screen name.
generateMockGeminiResponse_lowerClass(designIR) ==
    Ok(<<Prose, NL, NL,
         FENCE, "typescript", NL, TsImport, NL, TsDecorator, NL, TsStyleUrls, NL,
         ExportClass(toLowerCase(designIR.screenName)), NL, FENCE, NL, NL,
         FENCE, "html", NL, HtmlDivOpen, NL>>
       \o generateMockTemplate(designIR.components)
       \o <<HtmlDivClose, NL, FENCE, NL, NL, FENCE, "scss", NL, ScssRule, NL, FENCE>>)

generateMockGeminiResponse(designIR) ==
    IF MockRaises(designIR.components)
    THEN Throw(<<>>, "comp.label.toLowerCase is not a function")
    ELSE Ok(<<Prose, NL, NL,
              FENCE, "typescript", NL, TsImport, NL, TsDecorator, NL, TsStyleUrls, NL,
              ExportClass(designIR.screenName), NL, FENCE, NL, NL,
              FENCE, "html", NL, HtmlDivOpen, NL>>
            \o generateMockTemplate(designIR.components)
            \o <<HtmlDivClose, NL, FENCE, NL, NL,
                 FENCE, "scss", NL, ScssRule, NL, FENCE>>)

\* validatePromptInputs (angular-prompt-builder.js)
validatePromptInputs(designIR) ==
    IF Falsy(designIR.screenName) THEN Throw(FALSE, "Design IR missing screenName")
    ELSE IF Len(designIR.components) = 0
    THEN Throw(FALSE, "Design IR must have at least one component")
    ELSE Ok(TRUE)

\* figmaNode = null
NoFigmaNode == [isNull |-> TRUE, name |-> UNDEF, componentProperties |-> <<>>]

\* The input-inference collaborator: one string input and one template
\* binding per component property of the node, in the node's order.
inferAngularInputs(figmaNode, componentName) ==
    [inputs |-> [i \in 1..Len(figmaNode.componentProperties) |->
                    [name |-> figmaNode.componentProperties[i], type |-> "string",
                     defaultValue |-> ""]],
     templateBindings |-> [i \in 1..Len(figmaNode.componentProperties) |->
                    [type |-> "interpolation", target |-> "text",
                     expression |-> figmaNode.componentProperties[i]]],
     warnings |-> <<>>]

\* The collaborator's check of its own result: an input without a name is
\* an error.
validateInferredInputs(inferred) ==
    LET unnamed == {i \in 1..Len(inferred.inputs) : inferred.inputs[i].name = ""}
    IN [valid |-> unnamed = {},
        errors |-> IF unnamed = {} THEN <<>> ELSE <<"Input without a name">>]

\* A prompt builder with module-level state: the header tells whether a
\* prompt was built before.
buildAngularPrompt_stateful(designIR, componentMappings, figmaNode) ==
    Ok(<<"You are an Angular + PrimeNG code generator.",
         IF call.fn = "none" \/ call.built = {} THEN "first prompt" ELSE "next prompt",
         "DESIGN IR INPUT:", designIR.screenName>>)

\* The prompt text, by its parts in order: header, JSON of the IR, JSON of the
\* mapping table, inference section, constraints, required imports, token
\* mapping, file names, output format.
buildAngularPrompt(designIR, componentMappings, figmaNode) ==
    LET fileBase == toLowerCase(designIR.screenName)
        present(key, value) == IF value = UNDEF THEN <<>> ELSE <<key, value>>
        RECURSIVE stringifyComponents(_)
        stringifyComponents(cs) ==
            IF cs = <<>> THEN <<>>
            ELSE <<"{">> \o present("type", Head(cs).type)
                 \o present("text", Head(cs).text)
                 \o present("label", Head(cs).label)
                 \o present("inputType", Head(cs).inputType)
                 \o present("variant", Head(cs).variant)
                 \o <<"}">> \o stringifyComponents(Tail(cs))
        RECURSIVE stringifyMappings(_)
        stringifyMappings(kinds) ==
            IF kinds = <<>> THEN <<>>
            ELSE (IF Head(kinds) \in DOMAIN componentMappings
                  THEN <<Head(kinds), componentMappings[Head(kinds)].tag>> ELSE <<>>)
                 \o stringifyMappings(Tail(kinds))
        tokenLine(key, cssVar, value) ==
            IF value = UNDEF THEN <<>>
            ELSE <<key \o ": " \o value \o " -> --" \o cssVar
                     \o ": var(--" \o value \o ")">>
        RECURSIVE declarations(_)
        declarations(inputs) ==
            IF inputs = <<>> THEN <<>>
            ELSE <<"@Input() " \o Head(inputs).name \o ": " \o Head(inputs).type>>
                 \o declarations(Tail(inputs))
        prompt(inferred, validation, imports) ==
            IF ~imports.ok THEN Throw(<<>>, imports.err)
            ELSE Ok(<<"You are an Angular + PrimeNG code generator.",
                      "DESIGN IR INPUT:">>
                    \o present("screenName", designIR.screenName)
                    \o present("layout", designIR.layout)
                    \o stringifyComponents(designIR.components)
                    \o present("primaryColor", designIR.tokens.primaryColor)
                    \o present("spacing", designIR.tokens.spacing)
                    \o present("borderRadius", designIR.tokens.borderRadius)
                    \o present("fontSize", designIR.tokens.fontSize)
                    \o <<"COMPONENT MAPPING RULES:">>
                    \o stringifyMappings(<<"heading", "text", "input", "button",
                                            "container">>)
                    \o (IF validation.valid /\ Len(inferred.inputs) > 0
                        THEN <<"STAGE 2 INPUT INFERENCE (MANDATORY):">>
                             \o declarations(inferred.inputs)
                        ELSE <<>>)
                    \o <<"CONSTRAINTS:", "- Use Angular + PrimeNG ONLY",
                          "- NEVER use styleUrl (singular)">>
                    \o (IF Len(inferred.inputs) > 0
                        THEN <<"- MANDATORY: Include ALL inferred @Input() properties from Stage 2 section above">>
                        ELSE <<>>)
                    \o (IF Len(inferred.templateBindings) > 0
                        THEN <<"- MANDATORY: Apply ALL template bindings from Stage 2 section above">>
                        ELSE <<>>)
                    \o <<"REQUIRED IMPORTS:">> \o imports.val
                    \o <<"DESIGN TOKENS TO CSS VARIABLES:">>
                    \o tokenLine("primaryColor", "primary-color",
                                  designIR.tokens.primaryColor)
                    \o tokenLine("spacing", "spacing", designIR.tokens.spacing)
                    \o tokenLine("borderRadius", "border-radius",
                                  designIR.tokens.borderRadius)
                    \o tokenLine("fontSize", "font-size", designIR.tokens.fontSize)
                    \o <<"GENERATE FILES:", fileBase \o ".component.ts",
                          fileBase \o ".component.html", fileBase \o ".component.scss",
                          "Generate the code now:">>)
        inferredInputs ==
            IF figmaNode.isNull
            THEN [inputs |-> <<>>, templateBindings |-> <<>>, warnings |-> <<>>]
            ELSE inferAngularInputs(figmaNode, designIR.screenName)
    IN prompt(inferredInputs,
              IF figmaNode.isNull THEN [valid |-> TRUE, errors |-> <<>>]
              ELSE validateInferredInputs(inferredInputs),
              getRequiredImports(designIR.components))

MinResponseLength == 100

\* callGeminiAPI: a rejected call and a reply that is empty or shorter than
\* MinResponseLength raise "Gemini API error: ...".
callGeminiAPI(reply) ==
    IF reply.rejected THEN Throw(<<>>, "Gemini API error: " \o reply.message)
    ELSE IF reply.text = <<>> \/ Length(reply.text) < MinResponseLength
    THEN Throw(<<>>, "Gemini API error: Gemini response too short or empty")
    ELSE Ok(reply.text)

-----------------------------------------------------------------------------
(* Inputs of the code-generation handlers *)

SeqsUpTo(S, n) == UNION {[1..k -> S] : k \in 0..n}

Component(isNull, componentKey, text) ==
    [isNull |-> isNull, componentKey |-> componentKey, text |-> text]

NullComponent == Component(TRUE, UNDEF, UNDEF)

\* Component records of the pipeline's layouts: allow-listed keys, a key
\* outside the list, a record whose text is not a string, a null element.
PipelineComponents ==
    {Component(FALSE, "heading", "Login"),
     Component(FALSE, "text_input", "Email"),
     Component(FALSE, "primary_button", "Sign In"),
     Component(FALSE, "card_container", UNDEF),
     Component(FALSE, "custom_widget", UNDEF),
     Component(FALSE, "text_input", NUM),
     NullComponent}

Layout(isNull, screenType, componentsKind, components) ==
    [isNull |-> isNull, screenType |-> screenType,
     componentsKind |-> componentsKind, components |-> components]

NullLayout == Layout(TRUE, UNDEF, "missing", <<>>)

ScreenTypes == {"mobile", "web", "desktop"}

Layouts ==
    {NullLayout}
    \cup {Layout(FALSE, st, k, <<>>) : st \in ScreenTypes, k \in {"missing", "object"}}
    \cup {Layout(FALSE, st, "array", cs) :
            st \in ScreenTypes, cs \in SeqsUpTo(PipelineComponents, MaxComps)}

ScreenNameArgs == {"Login", "A(", "", UNDEF}

GoodContent(language) ==
    CASE language = "typescript" ->
           <<TsImport, NL, TsDecorator, NL, TsStyleUrls, NL, ExportClass("Login")>>
      [] language = "html" -> <<HtmlDiv>>
      [] OTHER -> <<ScssRule>>

LabelledBlock(language) ==
    <<FENCE, language, NL>> \o GoodContent(language) \o <<NL, FENCE, NL>>

Reply(rejected, message, text) ==
    [rejected |-> rejected, message |-> message, text |-> text]

\* Outcomes of the backend call: a rejection, an empty or short reply, and
\* replies of sufficient length with three, two or no labelled blocks, or
\* with a typescript block that fails validation.
PipelineReplies ==
    {Reply(TRUE, "fetch failed", <<>>),
     Reply(FALSE, "", <<>>),
     Reply(FALSE, "", <<Prose, NL>>),
     Reply(FALSE, "", <<Padding, NL>> \o LabelledBlock("typescript")
                        \o LabelledBlock("html") \o LabelledBlock("scss")),
     Reply(FALSE, "", <<Padding, NL>> \o LabelledBlock("typescript")
                        \o LabelledBlock("scss")),
     Reply(FALSE, "", <<Padding, NL, Prose, NL>>),
     Reply(FALSE, "", <<Padding, NL, FENCE, "typescript", NL, TsImport, NL, FENCE, NL>>
                        \o LabelledBlock("html") \o LabelledBlock("scss"))}

NoCall == [fn |-> "none"]

Size(width, height) == [width |-> width, height |-> height]

\* canvas_size absent
NoSize == Size(0, 0)

LayoutDocument(screenType, application_type, layout_archetype, canvas_size, sectionsKind, sections) ==
    [screenType |-> screenType, application_type |-> application_type,
     layout_archetype |-> layout_archetype, canvas_size |-> canvas_size,
     sectionsKind |-> sectionsKind, sections |-> sections,
     enhanced |-> FALSE, complexity_score |-> 0, primary_user_flow |-> UNDEF,
     content_density |-> UNDEF]

NoLayoutDoc == LayoutDocument(UNDEF, UNDEF, UNDEF, NoSize, "missing", <<>>)

-----------------------------------------------------------------------------
(* generateAngularCode, stage by stage *)

screenName == ScreenName(mode, screenNameArg)

\* console.log(... figmaLayoutJSON.components?.length ...)
G_Start ==
    /\ pc = "start" /\ mode = "full"
    /\ IF figmaLayoutJSON.isNull
       THEN Raise("start", result, "Cannot read properties of null (reading 'components')")
       ELSE pc' = "convert" /\ UNCHANGED <<result, outcome>>
    /\ UNCHANGED <<layoutVars, mode, figmaLayoutJSON, requestNode, mappingTable, screenNameArg, geminiResponse, backendCalls, call>>

\* STEP 1: convertToDesignIR, validateDesignIR
G_Convert ==
    /\ pc = "convert" /\ mode = "full"
    /\ LET c == convertToDesignIR(figmaLayoutJSON, screenName)
           r == [result EXCEPT !.designIR = c.val]
           v == validateDesignIR(c.val)
       IN IF ~c.ok THEN Raise("convert", result, c.err)
          ELSE IF ~v.ok THEN Raise("convert", r, v.err)
          ELSE pc' = "mappings" /\ result' = r /\ UNCHANGED outcome
    /\ UNCHANGED <<layoutVars, mode, figmaLayoutJSON, requestNode, mappingTable, screenNameArg, geminiResponse, backendCalls, call>>

\* STEP 2: validateComponentMappings, getRequiredImports
G_Mappings ==
    /\ pc = "mappings" /\ mode = "full"
    /\ LET v == validateComponentMappings(result.designIR.components)
           i == getRequiredImports(result.designIR.components)
       IN IF ~v.ok THEN Raise("mappings", result, v.err)
          ELSE IF ~i.ok THEN Raise("mappings", result, i.err)
          ELSE pc' = "prompt" /\ UNCHANGED <<result, outcome>>
    /\ UNCHANGED <<layoutVars, mode, figmaLayoutJSON, requestNode, mappingTable, screenNameArg, geminiResponse, backendCalls, call>>

\* result = await generateAngularCode(figmaLayoutJSON, screenName) and
\* result = await testPipeline(figmaLayoutJSON, screenName): the figmaNode
\* parameter of the pipeline, for a request that carries the node given.
pipelineFigmaNode(node) == NoFigmaNode

\* Step 3 without the prompt-input validation.
G_Prompt_noValidate ==
    /\ pc = "prompt" /\ mode = "full"
    /\ pc' = "callGemini"
    /\ UNCHANGED <<layoutVars, mode, figmaLayoutJSON, requestNode, mappingTable, screenNameArg, result,
                   outcome, geminiResponse, backendCalls, call>>

\* STEP 3: validatePromptInputs, buildAngularPrompt
G_Prompt ==
    /\ pc = "prompt" /\ mode = "full"
    /\ LET v == validatePromptInputs(result.designIR)
           p == buildAngularPrompt(result.designIR, mappingTable,
                                   pipelineFigmaNode(requestNode))
       IN IF ~v.ok THEN Raise("prompt", result, v.err)
          ELSE IF ~p.ok THEN Raise("prompt", result, p.err)
          ELSE pc' = "callGemini" /\ UNCHANGED <<result, outcome>>
    /\ UNCHANGED <<layoutVars, mode, figmaLayoutJSON, requestNode, mappingTable, screenNameArg, geminiResponse, backendCalls, call>>

\* STEP 4: the request is sent to the backend
G_CallGemini ==
    /\ pc = "callGemini" /\ mode = "full"
    /\ pc' = "awaitGemini"
    /\ backendCalls' = backendCalls + 1
    /\ UNCHANGED <<layoutVars, mode, figmaLayoutJSON, requestNode, mappingTable, screenNameArg, result, outcome, geminiResponse, call>>

\* STEP 4: the backend call settles
G_GeminiSettles ==
    /\ pc = "awaitGemini" /\ mode = "full"
    /\ \E reply \in PipelineReplies :
         LET g == callGeminiAPI(reply) IN
         IF ~g.ok
         THEN Raise("awaitGemini", result, g.err) /\ UNCHANGED geminiResponse
         ELSE pc' = "parse" /\ geminiResponse' = g.val /\ UNCHANGED <<result, outcome>>
    /\ UNCHANGED <<layoutVars, mode, figmaLayoutJSON, requestNode, mappingTable, screenNameArg, backendCalls, call>>

\* STEP 5: parseGeminiResponse, generateParsingSummary, errors collected
G_Parse ==
    /\ pc = "parse" /\ mode = "full"
    /\ LET parsed(generatedFiles) ==
               [result EXCEPT !.generatedFiles = generatedFiles,
                              !.summary = generateParsingSummary(generatedFiles),
                              !.errors = @ \o generatedFiles.errors]
       IN result' = parsed(parseGeminiResponse(geminiResponse, screenName))
    /\ pc' = "export"
    /\ UNCHANGED <<layoutVars, mode, figmaLayoutJSON, requestNode, mappingTable, screenNameArg, outcome, geminiResponse,
                   backendCalls, call>>

\* STEP 6: prepareFilesForExport, success
G_Export ==
    /\ pc = "export" /\ mode = "full"
    /\ Return([result EXCEPT !.exportFiles = prepareFilesForExport(result.generatedFiles),
                             !.fields = @ \cup {"exportFiles"},
                             !.success = (result.generatedFiles.errors = <<>>)])
    /\ UNCHANGED <<layoutVars, mode, figmaLayoutJSON, requestNode, mappingTable, screenNameArg, geminiResponse, backendCalls, call>>

-----------------------------------------------------------------------------
(* testPipeline, stage by stage *)

\* the logging before the try block (no figmaNode)
T_Start ==
    /\ pc = "start" /\ mode = "test"
    /\ pc' = "convert"
    /\ UNCHANGED <<layoutVars, mode, figmaLayoutJSON, requestNode, mappingTable, screenNameArg, result, outcome,
                   geminiResponse, backendCalls, call>>

\* Steps 1-3: convertToDesignIR, validateDesignIR, validateComponentMappings
T_Convert ==
    /\ pc = "convert" /\ mode = "test"
    /\ LET c == convertToDesignIR(figmaLayoutJSON, screenName)
           v == validateDesignIR(c.val)
           m == validateComponentMappings(c.val.components)
       IN IF ~c.ok THEN Raise("convert", result, c.err)
          ELSE IF ~v.ok THEN Raise("convert", result, v.err)
          ELSE IF ~m.ok THEN Raise("convert", result, m.err)
          ELSE /\ pc' = "mock"
               /\ result' = [result EXCEPT !.designIR = c.val]
               /\ UNCHANGED outcome
    /\ UNCHANGED <<layoutVars, mode, figmaLayoutJSON, requestNode, mappingTable, screenNameArg, geminiResponse, backendCalls, call>>

\* Step 4: generateMockGeminiResponse
T_Mock ==
    /\ pc = "mock" /\ mode = "test"
    /\ LET g == generateMockGeminiResponse(result.designIR) IN
       IF ~g.ok THEN Raise("mock", result, g.err) /\ UNCHANGED geminiResponse
       ELSE pc' = "parse" /\ geminiResponse' = g.val /\ UNCHANGED <<result, outcome>>
    /\ UNCHANGED <<layoutVars, mode, figmaLayoutJSON, requestNode, mappingTable, screenNameArg, backendCalls, call>>

\* Step 5: parseGeminiResponse, generateParsingSummary, the result object
T_Parse ==
    /\ pc = "parse" /\ mode = "test"
    /\ LET parsed(generatedFiles) ==
               Result({"success", "designIR", "generatedFiles", "summary",
                       "mockResponse", "stage2Enabled"},
                      generatedFiles.errors = <<>>, result.designIR, generatedFiles,
                      generateParsingSummary(generatedFiles), <<>>, UNDEF, <<>>)
       IN Return(parsed(parseGeminiResponse(geminiResponse, screenName)))
    /\ UNCHANGED <<layoutVars, mode, figmaLayoutJSON, requestNode, mappingTable, screenNameArg, geminiResponse, backendCalls, call>>

\* POST /generate-code without a figmaLayoutJSON: refused before any pipeline runs.
E_Refuse ==
    /\ pc = "start" /\ figmaLayoutJSON.isNull
    /\ pc' = "responded"
    /\ responses' = Append(responses,
                           [status |-> 400, fields |-> {"error", "example"},
                            success |-> UNDEF, errors |-> <<>>])
    /\ UNCHANGED <<layoutDoc, mode, figmaLayoutJSON, requestNode, mappingTable, screenNameArg, result, outcome,
                   geminiResponse, backendCalls, call>>

\* POST /generate-code after testPipeline or generateAngularCode has settled:
\* the success response, the 400 response built from result.errors,
\* result.designIR and result.summary (a property that is undefined is left
\* out of the JSON body), or the catch block's 500 response.
E_Respond ==
    /\ pc = "done" /\ ~figmaLayoutJSON.isNull
    /\ pc' = "responded"
    /\ responses' = Append(responses,
         IF outcome = "threw"
         THEN [status |-> 500, fields |-> {"error", "message"},
               success |-> UNDEF, errors |-> <<>>]
         ELSE IF result.success = TRUE
         THEN [status |-> 200,
               fields |-> {"success"} \cup
                   {f \in {"designIR", "files", "exportFiles", "summary"} :
                       (IF f = "files" THEN "generatedFiles" ELSE f) \in result.fields},
               success |-> TRUE, errors |-> <<>>]
         ELSE [status |-> 400,
               fields |-> {"success"} \cup
                   ({"errors", "designIR", "summary"} \cap result.fields),
               success |-> FALSE,
               errors |-> IF "errors" \in result.fields THEN result.errors ELSE <<>>])
    /\ UNCHANGED <<layoutDoc, mode, figmaLayoutJSON, requestNode, mappingTable, screenNameArg, result, outcome,
                   geminiResponse, backendCalls, call>>

Init ==
    /\ pc = "start"
    /\ mode \in {"full", "test"}
    /\ figmaLayoutJSON \in Layouts
    /\ requestNode \in {NoFigmaNode,
                        [isNull |-> FALSE, name |-> "Button",
                         componentProperties |-> <<"label">>]}
    /\ requestNode.isNull \/ Len(figmaLayoutJSON.components) <= 1
    /\ mappingTable = COMPONENT_MAPPING
    /\ screenNameArg \in ScreenNameArgs
    /\ result = NewResult
    /\ outcome = "pending"
    /\ geminiResponse = <<>>
    /\ backendCalls = 0
    /\ call = NoCall
    /\ layoutDoc = NoLayoutDoc
    /\ responses = <<>>

Next ==
    \/ G_Start \/ G_Convert \/ G_Mappings \/ G_Prompt
    \/ G_CallGemini \/ G_GeminiSettles \/ G_Parse \/ G_Export
    \/ T_Start \/ T_Convert \/ T_Mock \/ T_Parse
    \/ E_Refuse \/ E_Respond

Spec == Init /\ [][Next]_vars

-----------------------------------------------------------------------------
(* Properties of the code-generation pipeline *)

\* C1: generateAngularCode and testPipeline never let an exception escape:
\* whatever the layout document, the screen name and the backend outcome,
\* no handler ends by raising; a handler that has ended has returned a
\* result object.
C1_NoExceptionEscapes ==
    /\ outcome # "threw"
    /\ pc = "done" => outcome = "returned" /\ "success" \in result.fields

\* An exception was raised inside a handler (null layout, malformed record,
\* rejected backend call) and the handler returned a result all the same.
C1_Witness ==
    /\ outcome = "returned"
    /\ \/ mode = "full" /\ figmaLayoutJSON.isNull /\ result.errors # <<>>
       \/ mode = "test" /\ result.error # UNDEF

\* C2: in every result generateAngularCode returns, success is true exactly
\* when the result's errors list is empty.
C2_SuccessIffNoErrors ==
    (mode = "full" /\ outcome = "returned") =>
        (result.success <=> result.errors = <<>>)

\* generateAngularCode returned after all stages ran, with artifacts extracted
\* and a validation error recorded.
C2_Witness ==
    /\ mode = "full" /\ outcome = "returned"
    /\ ~result.generatedFiles.typescript.isNull
    /\ result.errors # <<>>
    /\ ~result.success

\* C9: every component convertToDesignIR emits has one of the five mapped
\* kinds, so validateComponentMappings and getRequiredImports succeed on the
\* IR of every document the converter accepts, and no handler ends with a
\* mapping error.
C9_ConverterEmitsMappedKinds ==
    /\ ~result.designIR.isNull =>
          /\ \A i \in 1..Len(result.designIR.components) :
                result.designIR.components[i].type \in DOMAIN COMPONENT_MAPPING
          /\ validateComponentMappings(result.designIR.components).ok
          /\ getRequiredImports(result.designIR.components).ok
    /\ result.error # "Unmapped components found"
    /\ \A c \in PipelineComponents :
          result.error # "No mapping found for component type: " \o c.componentKey
    /\ \A i \in 1..Len(result.errors) :
          \A c \in PipelineComponents :
             /\ result.errors[i] # "Pipeline error: Unmapped components found"
             /\ result.errors[i] # "Pipeline error: No mapping found for component type: "
                                      \o c.componentKey

\* The mapping stage has passed on an IR that holds a component converted from
\* a key outside the handled set.
C9_Witness ==
    /\ pc = "prompt"
    /\ \E i \in 1..Len(figmaLayoutJSON.components) :
          /\ figmaLayoutJSON.components[i].componentKey = "custom_widget"
          /\ result.designIR.components[i].type = "text"

\* The test-mode run on the mobile login layout (heading 'Login', text_input
\* 'Email', primary_button 'Sign In') under the name 'Login'.
LoginTestDone ==
    /\ mode = "test" /\ pc = "done" /\ screenNameArg = "Login"
    /\ figmaLayoutJSON =
           Layout(FALSE, "mobile", "array",
                  <<Component(FALSE, "heading", "Login"),
                    Component(FALSE, "text_input", "Email"),
                    Component(FALSE, "primary_button", "Sign In")>>)

\* C13: testPipeline on the mobile login layout named 'Login' returns a
\* result whose IR components are of kinds heading, input, button in that
\* order, whose success is true, whose html contains p-inputText and p-button
\* and whose typescript contains @Component and 'export class LoginComponent'.
C13_LoginScenario ==
    LoginTestDone =>
        /\ outcome = "returned"
        /\ result.success = TRUE
        /\ [i \in 1..Len(result.designIR.components) |->
               result.designIR.components[i].type] = <<"heading", "input", "button">>
        /\ Includes(result.generatedFiles.html.content, "p-inputText")
        /\ Includes(result.generatedFiles.html.content, "p-button")
        /\ Includes(result.generatedFiles.typescript.content, "@Component")
        /\ \E i \in 1..Len(result.generatedFiles.typescript.content) :
               result.generatedFiles.typescript.content[i] = ExportClass("Login")

C13_Witness ==
    /\ LoginTestDone
    /\ "generatedFiles" \in result.fields
    /\ result.generatedFiles.errors = <<>>
    /\ ~result.generatedFiles.scss.isNull

\* C20: every code-generation response with success = false, in test mode as
\* in full mode, has an errors field that holds at least one message.
C20_FailedCarriesErrors ==
    \A i \in 1..Len(responses) :
        ("success" \in responses[i].fields /\ responses[i].success = FALSE)
            => /\ "errors" \in responses[i].fields
               /\ responses[i].errors # <<>>

\* C21: when the code-generation request carries a node, the pipeline gets
\* it, so that the prompt built in full mode holds the input-inference
\* section for it; the node is dropped only when the request carries none.
C21_NodeHandedToPipeline ==
    (mode = "full" /\ pc = "callGemini" /\ ~requestNode.isNull) =>
          \E i \in 1..Len(buildAngularPrompt(result.designIR, COMPONENT_MAPPING,
                                             pipelineFigmaNode(requestNode)).val) :
              buildAngularPrompt(result.designIR, COMPONENT_MAPPING,
                                 pipelineFigmaNode(requestNode)).val[i]
                  = "STAGE 2 INPUT INFERENCE (MANDATORY):"

\* C22: in generateAngularCode the stages run strictly forward and the
\* backend is called at most once per request: only after IR conversion, IR
\* validation, mapping validation and prompt-input validation have succeeded;
\* a failed or too-short reply is not retried; parsing starts only after the
\* reply has arrived.
C22_ForwardAndOnce ==
    [][LET rank(p) ==
               CASE p = "start" -> 0 [] p = "convert" -> 1 [] p = "mappings" -> 2
                 [] p = "prompt" -> 3 [] p = "callGemini" -> 4
                 [] p = "awaitGemini" -> 5 [] p = "parse" -> 6
                 [] p = "export" -> 7 [] p = "done" -> 8 [] OTHER -> 9
           checked(c) ==
               /\ c.ok /\ validateDesignIR(c.val).ok
               /\ validateComponentMappings(c.val.components).ok
               /\ validatePromptInputs(c.val).ok
           once(p, calls, reply) ==
               /\ calls \in {0, 1}
               /\ rank(p) <= 4 => calls = 0
               /\ calls = 1 => checked(convertToDesignIR(figmaLayoutJSON, screenName))
               /\ p = "awaitGemini" => calls = 1 /\ reply = <<>>
               /\ p \in {"parse", "export"} => calls = 1 /\ reply # <<>>
       IN mode = "full" =>
             /\ rank(pc') > rank(pc) /\ backendCalls' >= backendCalls
             /\ once(pc, backendCalls, geminiResponse)
             /\ once(pc', backendCalls', geminiResponse')]_vars

\* A request whose one backend call failed has returned.
C22_Witness ==
    /\ mode = "full" /\ pc = "done" /\ backendCalls = 1
    /\ result.errors =
          <<"Pipeline error: Gemini API error: Gemini response too short or empty">>

\* C26: testPipeline performs the pre-backend checks of generateAngularCode:
\* the test-mode run gets as far as generating its response exactly for the
\* layout documents and screen names with which the full pipeline gets as
\* far as calling the backend.
C26_SamePreChecks ==
    LET passes(c, withPromptInputs) ==
            /\ ~figmaLayoutJSON.isNull
            /\ c.ok /\ validateDesignIR(c.val).ok
            /\ validateComponentMappings(c.val.components).ok
            /\ withPromptInputs =>
                  /\ getRequiredImports(c.val.components).ok
                  /\ validatePromptInputs(c.val).ok
    IN /\ (mode = "test" /\ pc = "mock") =>
             passes(convertToDesignIR(figmaLayoutJSON, ScreenName("full", screenNameArg)),
                    TRUE)
       /\ (mode = "full" /\ pc = "callGemini") =>
             passes(convertToDesignIR(figmaLayoutJSON, ScreenName("test", screenNameArg)),
                    FALSE)

-----------------------------------------------------------------------------
(* Layout archetypes (layout-archetypes.js) *)

Rule(direction, components) == [direction |-> direction, components |-> components]

Archetype(canvas_type, sections, typical_components, layout_direction, section_rules, responsive_behavior) ==
    [canvas_type |-> canvas_type, sections |-> sections,
     typical_components |-> typical_components,
     layout_direction |-> layout_direction,
     section_rules |-> section_rules,
     responsive_behavior |-> responsive_behavior]

LAYOUT_ARCHETYPES ==
    [dashboard_web |->
        Archetype("desktop", <<"header", "main_content", "sidebar">>,
            <<"heading", "card_container", "description", "primary_button", "secondary_button">>,
            "multi_column",
            [header |-> Rule("horizontal", <<"heading", "primary_button">>),
             main_content |-> Rule("grid", <<"card_container", "description">>),
             sidebar |-> Rule("vertical", <<"card_container", "secondary_button">>)],
            "collapse_sidebar_on_mobile"),
     landing_web |->
        Archetype("desktop", <<"hero", "content_sections", "cta">>,
            <<"heading", "description", "wrapped_description", "primary_button", "secondary_button">>,
            "vertical_sections",
            [hero |-> Rule("vertical", <<"heading", "description", "primary_button">>),
             content_sections |-> Rule("vertical", <<"heading", "wrapped_description">>),
             cta |-> Rule("horizontal", <<"primary_button", "secondary_button">>)],
            "stack_sections_on_mobile"),
     ecommerce_web |->
        Archetype("desktop", <<"header", "product_grid", "sidebar_filters">>,
            <<"heading", "card_container", "primary_button", "text_input">>,
            "multi_column",
            [header |-> Rule("horizontal", <<"heading", "text_input">>),
             product_grid |-> Rule("grid", <<"card_container", "primary_button">>),
             sidebar_filters |-> Rule("vertical", <<"heading", "text_input", "secondary_button">>)],
            "collapse_sidebar_on_mobile"),
     healthcare_web |->
        Archetype("desktop", <<"header", "patient_info", "main_content", "actions">>,
            <<"heading", "description", "card_container", "primary_button", "text_input">>,
            "multi_column",
            [header |-> Rule("horizontal", <<"heading", "primary_button">>),
             patient_info |-> Rule("vertical", <<"card_container", "description">>),
             main_content |-> Rule("grid", <<"card_container", "text_input">>),
             actions |-> Rule("horizontal", <<"primary_button", "secondary_button">>)],
            "stack_sections_on_mobile"),
     auth_flow |->
        Archetype("centered", <<"centered_form">>,
            <<"heading", "description", "text_input", "primary_button", "secondary_button">>,
            "vertical_form",
            [centered_form |-> Rule("vertical",
                <<"heading", "description", "text_input", "primary_button", "secondary_button">>)],
            "maintain_center_on_all_sizes"),
     content_page |->
        Archetype("desktop", <<"header", "main_content">>,
            <<"heading", "description", "wrapped_description", "secondary_button">>,
            "single_column",
            [header |-> Rule("horizontal", <<"heading", "secondary_button">>),
             main_content |-> Rule("vertical", <<"heading", "wrapped_description">>)],
            "maintain_single_column"),
     mobile_stacked |->
        Archetype("mobile", <<"stacked_content">>,
            <<"heading", "description", "card_container", "primary_button">>,
            "vertical_only",
            [stacked_content |-> Rule("vertical",
                <<"heading", "description", "card_container", "primary_button">>)],
            "maintain_vertical_stack"),
     mobile_dashboard |->
        Archetype("mobile", <<"header", "cards_stack", "bottom_actions">>,
            <<"heading", "card_container", "primary_button", "secondary_button">>,
            "vertical_only",
            [header |-> Rule("vertical", <<"heading">>),
             cards_stack |-> Rule("vertical", <<"card_container">>),
             bottom_actions |-> Rule("horizontal", <<"primary_button", "secondary_button">>)],
            "maintain_vertical_stack"),
     mobile_form |->
        Archetype("mobile", <<"form_stack">>,
            <<"heading", "description", "text_input", "primary_button">>,
            "vertical_only",
            [form_stack |-> Rule("vertical",
                <<"heading", "description", "text_input", "primary_button">>)],
            "maintain_vertical_stack")]

ScreenMap(web, mobile) == [web |-> web, mobile |-> mobile]

APPLICATION_ARCHETYPE_MAP ==
    [dashboard |-> ScreenMap("dashboard_web", "mobile_dashboard"),
     ecommerce |-> ScreenMap("ecommerce_web", "mobile_stacked"),
     healthcare |-> ScreenMap("healthcare_web", "mobile_dashboard"),
     education |-> ScreenMap("content_page", "mobile_stacked"),
     saas |-> ScreenMap("dashboard_web", "mobile_dashboard"),
     landing_page |-> ScreenMap("landing_web", "mobile_stacked"),
     auth |-> ScreenMap("auth_flow", "mobile_form"),
     profile |-> ScreenMap("content_page", "mobile_form"),
     settings |-> ScreenMap("content_page", "mobile_form"),
     default |-> ScreenMap("content_page", "mobile_stacked")]

\* MAPPING RULES of GEMINI_SYSTEM_PROMPT: the archetype the layout model is
\* told to choose, per application type and screen type.
MAPPING_RULES ==
    [dashboard |-> ScreenMap("dashboard_web", "mobile_dashboard"),
     ecommerce |-> ScreenMap("ecommerce_web", "mobile_stacked"),
     healthcare |-> ScreenMap("healthcare_web", "mobile_dashboard"),
     education |-> ScreenMap("content_page", "mobile_stacked"),
     saas |-> ScreenMap("dashboard_web", "mobile_dashboard"),
     landing_page |-> ScreenMap("landing_web", "mobile_stacked"),
     auth |-> ScreenMap("auth_flow", "mobile_form"),
     profile |-> ScreenMap("auth_flow", "mobile_form"),
     settings |-> ScreenMap("auth_flow", "mobile_form")]

CANVAS_SIZES ==
    [desktop |-> Size(1200, 800),
     mobile |-> Size(375, 812),
     centered |-> Size(400, 600)]

\* mapping = MAP[applicationType] || MAP.default; mapping[screenType] || mapping.web.
\* A property inherited from Object.prototype is truthy: as a mapping it has no
\* web or mobile property, as a result it is returned as it is.
getArchetypeForApplication(applicationType, screenType) ==
    LET m == JSLookup(DOMAIN APPLICATION_ARCHETYPE_MAP, applicationType)
        mapping == IF m = "own" THEN APPLICATION_ARCHETYPE_MAP[applicationType]
                   ELSE APPLICATION_ARCHETYPE_MAP.default
    IN IF m = "inherited"
       THEN (IF screenType \in ObjectPrototypeKeys THEN "<inherited>" ELSE UNDEF)
       ELSE IF screenType \in DOMAIN mapping THEN mapping[screenType]
       ELSE IF screenType \in ObjectPrototypeKeys THEN "<inherited>"
       ELSE mapping.web

\* The value of a lookup in LAYOUT_ARCHETYPES: missing, or the configuration
\* stored under the key named by "of".
ArchetypeConfig(missing, of, config) == [missing |-> missing, of |-> of, config |-> config]

\* LAYOUT_ARCHETYPES[archetypeName] || LAYOUT_ARCHETYPES.mobile_stacked
getArchetypeConfig(archetypeName) ==
    LET m == JSLookup(DOMAIN LAYOUT_ARCHETYPES, archetypeName) IN
    IF m = "own" THEN ArchetypeConfig(FALSE, archetypeName, LAYOUT_ARCHETYPES[archetypeName])
    ELSE IF m = "inherited" THEN ArchetypeConfig(FALSE, "Object.prototype",
                         Archetype(UNDEF, <<>>, <<>>, UNDEF, <<>>, UNDEF))
    ELSE ArchetypeConfig(FALSE, "mobile_stacked", LAYOUT_ARCHETYPES.mobile_stacked)

\* CANVAS_SIZES[canvasType] || CANVAS_SIZES.desktop
getCanvasSize(canvasType) ==
    IF canvasType \in DOMAIN CANVAS_SIZES THEN CANVAS_SIZES[canvasType]
    ELSE CANVAS_SIZES.desktop

-----------------------------------------------------------------------------
(* The response parser called on its own *)

\* Code announced by a filename comment, without fences.
CommentBlock(style, language) ==
    <<FileComment(style, language), NL>> \o GoodContent(language) \o <<NL>>

\* Replies of up to MaxBlocks blocks: labelled blocks, a fenced block whose
\* closing fence is followed on its line by the language name, code under a
\* filename comment, an unlabelled block, prose, an unclosed block.
Responses ==
    LET RECURSIVE Concat(_)
        Concat(bs) == IF bs = <<>> THEN <<>> ELSE Head(bs) \o Concat(Tail(bs))
        TrailingBlock(language) ==
            <<FENCE, NL>> \o GoodContent(language) \o <<NL, FENCE, " ", language, NL>>
        UnlabelledBlock == <<FENCE, NL, TsImport, NL, FENCE, NL>>
        Blocks ==
            {LabelledBlock(l) : l \in LanguageSet}
            \cup {TrailingBlock("html"), CommentBlock("//", "typescript"),
                  CommentBlock("<!--", "html"), CommentBlock("/*", "scss")}
            \cup {UnlabelledBlock, <<Prose, NL>>, <<FENCE, "html", NL, HtmlDiv, NL>>}
    IN {Concat(bs) : bs \in SeqsUpTo(Blocks, MaxBlocks)}

P_Parse ==
    /\ pc = "ready"
    /\ pc' = "parsed"
    /\ result' = [result EXCEPT
                    !.generatedFiles = parseGeminiResponse(geminiResponse, screenNameArg)]
    /\ UNCHANGED <<layoutVars, mode, figmaLayoutJSON, requestNode, mappingTable, screenNameArg, outcome, geminiResponse,
                   backendCalls, call>>

P_Extract ==
    /\ pc \in {"ready", "parsed"}
    /\ \E language \in LanguageSet :
         LET r == extractCodeBlock(geminiResponse, language, screenNameArg) IN
         call' = [fn |-> "extractCodeBlock", language |-> language,
                  ok |-> r.ok, file |-> r.val, err |-> r.err]
    /\ UNCHANGED <<layoutVars, pc, mode, figmaLayoutJSON, requestNode, mappingTable, screenNameArg, result, outcome,
                   geminiResponse, backendCalls>>

InitParse ==
    /\ pc = "ready"
    /\ mode = "parse"
    /\ figmaLayoutJSON = NullLayout
    /\ requestNode = NoFigmaNode
    /\ mappingTable = COMPONENT_MAPPING
    /\ screenNameArg \in {"Login", "A("}
    /\ result = NewResult
    /\ outcome = "pending"
    /\ geminiResponse \in Responses
    /\ backendCalls = 0
    /\ call = NoCall
    /\ layoutDoc = NoLayoutDoc
    /\ responses = <<>>

NextParse == P_Parse \/ P_Extract

SpecParse == InitParse /\ [][NextParse]_vars

files == result.generatedFiles

\* C3: the three artifacts are extracted independently: whichever kind finds
\* no block, every kind whose block the response contains is still extracted
\* and returned.
C3_IndependentExtraction ==
    pc = "parsed" =>
        \A language \in LanguageSet :
            extractCodeBlock(geminiResponse, language, screenNameArg).ok
                => ~files[language].isNull

\* C4: from a response with labelled typescript and scss blocks and no markup
\* block, parseGeminiResponse returns a non-empty typescript artifact, a
\* non-empty scss artifact, no html artifact, and the single error
\* "No html code block found".
C4_MissingMarkup ==
    (/\ pc = "parsed"
     /\ RegexSafe(screenNameArg)
     /\ geminiResponse \in
           {LabelledBlock("typescript") \o LabelledBlock("scss"),
            <<Prose, NL>> \o LabelledBlock("typescript") \o LabelledBlock("scss")}) =>
        /\ ~files.typescript.isNull /\ files.typescript.content # <<>>
        /\ ~files.scss.isNull /\ files.scss.content # <<>>
        /\ files.html.isNull
        /\ files.errors = <<"No html code block found">>

HasFencedBlock(response) ==
    \E i, j \in 1..Len(response) : i < j /\ response[i] = FENCE /\ response[j] = FENCE

-----------------------------------------------------------------------------
(* The lookup functions and the converter called on their own *)

\* Component records handed to the converter: every allow-listed key, a key
\* outside the list, the name of an Object.prototype member, no key; a text
\* that is a string, empty, missing, null or a number; and a null element.
ComponentRecords ==
    {Component(FALSE, k, t) :
        k \in AllowedKeys \cup {"custom_widget", "constructor", UNDEF},
        t \in {"Sign In", "", UNDEF, NULLV, NUM}}
    \cup {NullComponent}

\* Kind strings: the five kinds of the table, layout component keys, names of
\* Object.prototype members, others.
Lib_getComponentMapping ==
    /\ \E kind \in DOMAIN COMPONENT_MAPPING \cup ObjectPrototypeKeys
                     \cup {"text_input", "custom_widget", "", UNDEF} :
         LET r == getComponentMapping(kind) IN
         call' = [fn |-> "getComponentMapping", arg |-> kind,
                  ok |-> r.ok, ret |-> r.val, err |-> r.err]
    /\ UNCHANGED <<layoutVars, pc, mode, figmaLayoutJSON, requestNode, mappingTable, screenNameArg, result, outcome,
                   geminiResponse, backendCalls>>

Lib_getArchetypeConfig ==
    /\ \E name \in DOMAIN LAYOUT_ARCHETYPES
                     \cup {"bogus_archetype", "dashboard", "constructor", "", UNDEF} :
         call' = [fn |-> "getArchetypeConfig", arg |-> name,
                  ret |-> getArchetypeConfig(name)]
    /\ UNCHANGED <<layoutVars, pc, mode, figmaLayoutJSON, requestNode, mappingTable, screenNameArg, result, outcome,
                   geminiResponse, backendCalls>>

Lib_getArchetypeForApplication ==
    /\ \E app \in DOMAIN APPLICATION_ARCHETYPE_MAP \cup {"banking", "constructor", UNDEF},
          st \in {"web", "mobile", UNDEF} :
         call' = [fn |-> "getArchetypeForApplication", arg |-> app, screenType |-> st,
                  ret |-> getArchetypeForApplication(app, st)]
    /\ UNCHANGED <<layoutVars, pc, mode, figmaLayoutJSON, requestNode, mappingTable, screenNameArg, result, outcome,
                   geminiResponse, backendCalls>>

Lib_getCanvasSize ==
    /\ \E ct \in DOMAIN CANVAS_SIZES \cup {"tablet", UNDEF} :
         call' = [fn |-> "getCanvasSize", arg |-> ct, ret |-> getCanvasSize(ct)]
    /\ UNCHANGED <<layoutVars, pc, mode, figmaLayoutJSON, requestNode, mappingTable, screenNameArg, result, outcome,
                   geminiResponse, backendCalls>>

Lib_convertFigmaComponentToIR ==
    /\ \E c \in ComponentRecords :
         LET r == convertFigmaComponentToIR(c) IN
         call' = [fn |-> "convertFigmaComponentToIR", arg |-> c,
                  ok |-> r.ok, ret |-> r.val, err |-> r.err]
    /\ UNCHANGED <<layoutVars, pc, mode, figmaLayoutJSON, requestNode, mappingTable, screenNameArg, result, outcome,
                   geminiResponse, backendCalls>>

\* convertToDesignIR on any layout document; the record keeps the screen type
\* of the conversion performed just before.
Lib_convertToDesignIR ==
    /\ \E st \in ScreenTypes \cup {UNDEF}, name \in {"Login", UNDEF},
          cs \in SeqsUpTo({Component(FALSE, "heading", "Login"),
                           Component(FALSE, "custom_widget", UNDEF)}, MaxComps) :
         LET layout == Layout(FALSE, st, "array", cs)
             r == convertToDesignIR(layout, ScreenName("full", name)) IN
         call' = [fn |-> "convertToDesignIR", arg |-> layout,
                  after |-> IF call.fn = "convertToDesignIR"
                            THEN call.arg.screenType ELSE "none",
                  ok |-> r.ok, ret |-> r.val, err |-> r.err]
    /\ UNCHANGED <<layoutVars, pc, mode, figmaLayoutJSON, requestNode, mappingTable, screenNameArg, result, outcome,
                   geminiResponse, backendCalls>>

InitLib ==
    /\ pc = "idle"
    /\ mode = "library"
    /\ figmaLayoutJSON = NullLayout
    /\ requestNode = NoFigmaNode
    /\ mappingTable = COMPONENT_MAPPING
    /\ screenNameArg = UNDEF
    /\ result = NewResult
    /\ outcome = "pending"
    /\ geminiResponse = <<>>
    /\ backendCalls = 0
    /\ call = NoCall
    /\ layoutDoc = NoLayoutDoc
    /\ responses = <<>>

NextLib ==
    \/ Lib_getComponentMapping
    \/ Lib_getArchetypeConfig
    \/ Lib_getArchetypeForApplication
    \/ Lib_getCanvasSize
    \/ Lib_convertFigmaComponentToIR
    \/ Lib_convertToDesignIR

SpecLib == InitLib /\ [][NextLib]_vars

\* C6: for every key that is not a key of the archetype table,
\* getArchetypeConfig returns a missing value, not another archetype's
\* configuration.
C6_AbsenceReported ==
    (call.fn = "getArchetypeConfig" /\ call.arg \notin DOMAIN LAYOUT_ARCHETYPES)
        => call.ret.missing

\* C8: getComponentMapping succeeds for exactly the five kinds heading, text,
\* input, button and container; for every other kind string it fails with
\* "No mapping found for component type".
C8_ExactlyFiveKinds ==
    call.fn = "getComponentMapping" =>
        /\ call.ok <=> call.arg \in {"heading", "text", "input", "button", "container"}
        /\ ~call.ok => call.err = "No mapping found for component type: " \o call.arg

\* C10: conversion of a component record never raises; each of the nine
\* allow-listed keys gives its one IR kind; a key outside the handled set, or
\* no key, gives a text component carrying the record's text or the
\* placeholder "Unknown component".
C10_ConversionTotal ==
    LET KindOfKey ==
            [heading |-> "heading", description |-> "text",
             wrapped_description |-> "text", text_input |-> "input",
             primary_button |-> "button", secondary_button |-> "button",
             card_container |-> "container", primary_icon_button |-> "text",
             default_blankslate |-> "text"]
        HandledKeys ==
            {"heading", "description", "wrapped_description", "text_input",
             "primary_button", "secondary_button", "card_container"}
    IN
    (call.fn = "convertFigmaComponentToIR" /\ ~call.arg.isNull) =>
        /\ call.ok
        /\ call.arg.componentKey \in AllowedKeys =>
              call.ret.type = KindOfKey[call.arg.componentKey]
        /\ call.arg.componentKey \notin HandledKeys =>
              /\ call.ret.type = "text"
              /\ call.ret.text = IF Falsy(call.arg.text) THEN "Unknown component"
                                 ELSE call.arg.text

\* A record whose key is outside the allow-list was converted.
C10_Witness ==
    /\ call.fn = "convertFigmaComponentToIR"
    /\ call.arg.componentKey = "custom_widget"
    /\ call.ok
    /\ call.ret.type = "text"

\* C11: the tokens of the IR depend on the screen type alone: mobile gives
\* spacing sm and font size base, desktop gives spacing lg and font size lg,
\* whatever document carries the screen type and whatever conversion was
\* performed before.
C11_TokensByScreenType ==
    (call.fn = "convertToDesignIR" /\ call.ok) =>
        /\ call.arg.screenType = "mobile" => call.ret.tokens.spacing = "sm"
        /\ call.arg.screenType = "desktop" => call.ret.tokens.spacing = "lg"
        /\ call.ret.tokens =
              extractDesignTokens(Layout(FALSE, call.arg.screenType, "array", <<>>))

\* A desktop document converted right after a mobile one.
C11_Witness ==
    /\ call.fn = "convertToDesignIR" /\ call.ok
    /\ call.after = "mobile"
    /\ call.arg.screenType = "desktop"
    /\ call.ret.tokens.spacing = "lg"
    /\ Len(call.arg.components) > 0

\* C30: the static archetype tables are mutually consistent: every archetype
\* named in APPLICATION_ARCHETYPE_MAP (default entry included) is a key of
\* LAYOUT_ARCHETYPES, every archetype's canvas_type is a key of CANVAS_SIZES,
\* every archetype's section_rules has exactly the keys listed in its
\* sections, and every component key of a section rule is in
\* ALLOWED_COMPONENT_KEYS; hence for any application type and screen type the
\* archetype getArchetypeForApplication returns is one for which neither
\* getArchetypeConfig nor getCanvasSize falls back to its default.
C30_TablesConsistentNoFallback ==
    LET elems(seq) == {seq[i] : i \in 1..Len(seq)} IN
    /\ \A app \in DOMAIN APPLICATION_ARCHETYPE_MAP :
          \A st \in DOMAIN APPLICATION_ARCHETYPE_MAP[app] :
             APPLICATION_ARCHETYPE_MAP[app][st] \in DOMAIN LAYOUT_ARCHETYPES
    /\ \A a \in DOMAIN LAYOUT_ARCHETYPES :
          /\ LAYOUT_ARCHETYPES[a].canvas_type \in DOMAIN CANVAS_SIZES
          /\ DOMAIN LAYOUT_ARCHETYPES[a].section_rules = elems(LAYOUT_ARCHETYPES[a].sections)
          /\ \A sec \in DOMAIN LAYOUT_ARCHETYPES[a].section_rules :
                elems(LAYOUT_ARCHETYPES[a].section_rules[sec].components) \subseteq AllowedKeys
    /\ call.fn = "getArchetypeForApplication" =>
          /\ call.ret \in DOMAIN LAYOUT_ARCHETYPES
          /\ getArchetypeConfig(call.ret).of = call.ret
          /\ getArchetypeConfig(call.ret).config.canvas_type \in DOMAIN CANVAS_SIZES

\* C28: for every layout document whose screenType is one of the two values
\* of the layout schema ("web" | "mobile" in the JSON SCHEMA of the layout
\* prompt), convertToDesignIR yields layout = vertical, and for web the
\* tokens are the default tier (spacing md, no fontSize); layout = horizontal
\* and the desktop-tier tokens result only from screenType "desktop", which is
\* not a value of the schema.
C28_SchemaScreensVertical ==
    (call.fn = "convertToDesignIR" /\ call.ok) =>
        LET st == call.arg.screenType
            desktopTier == call.ret.tokens.spacing = "lg" \/ call.ret.tokens.fontSize = "lg"
        IN /\ st \in {"web", "mobile"} => call.ret.layout = "vertical"
           /\ st = "web" => /\ call.ret.tokens.spacing = "md"
                            /\ call.ret.tokens.fontSize = UNDEF
           /\ (call.ret.layout = "horizontal" \/ desktopTier) => st = "desktop"
           /\ st = "desktop" => call.ret.layout = "horizontal" /\ desktopTier
           /\ "desktop" \notin {"web", "mobile"}

\* A web document with components, converted.
C28_Witness ==
    /\ call.fn = "convertToDesignIR" /\ call.ok
    /\ call.arg.screenType = "web"
    /\ Len(call.arg.components) > 0
    /\ call.ret.layout = "vertical"
    /\ call.ret.tokens.spacing = "md"

\* C25: for every application type named in the MAPPING RULES of the layout
\* prompt and each screen type, getArchetypeForApplication returns the
\* archetype the rule names (auth, profile and settings: auth_flow for web,
\* mobile_form for mobile); an unrecognised application type gives the
\* default entry.
C25_ResolverFollowsRules ==
    (call.fn = "getArchetypeForApplication" /\ call.screenType \in {"web", "mobile"}) =>
        /\ call.arg \in DOMAIN MAPPING_RULES
              => call.ret = MAPPING_RULES[call.arg][call.screenType]
        /\ call.arg = "banking"
              => call.ret = APPLICATION_ARCHETYPE_MAP.default[call.screenType]

-----------------------------------------------------------------------------
(* The prompt builder and the helpers of the parser and the mapping table,
   called one after another in any order.  Every call record carries the
   prompts built so far. *)

Calls_buildAngularPrompt ==
    /\ \E layout \in {Layout(FALSE, "mobile", "array",
                              <<Component(FALSE, "heading", "Login"),
                                Component(FALSE, "text_input", "Email")>>),
                       Layout(FALSE, "desktop", "array",
                              <<Component(FALSE, "primary_button", "Sign In")>>)},
          node \in {NoFigmaNode,
                    [isNull |-> FALSE, name |-> "Button",
                     componentProperties |-> <<"label">>],
                    [isNull |-> FALSE, name |-> "Button",
                     componentProperties |-> <<"">>]} :
         LET built == IF call.fn = "none" THEN {} ELSE call.built
             made(designIR, p) ==
                 [fn |-> "buildAngularPrompt", designIR |-> designIR,
                  figmaNode |-> node, ok |-> p.ok, prompt |-> p.val,
                  between |-> call.fn,
                  again |-> \E b \in built :
                               b.designIR = designIR /\ b.figmaNode = node,
                  built |-> built \cup {[designIR |-> designIR, figmaNode |-> node,
                                         prompt |-> p.val]}]
             with(designIR) ==
                 made(designIR, buildAngularPrompt(designIR, COMPONENT_MAPPING, node))
         IN /\ node.componentProperties = <<"">> => layout.screenType = "mobile"
            /\ call' = with(convertToDesignIR(layout, "Login").val)
    /\ UNCHANGED <<layoutVars, pc, mode, figmaLayoutJSON, requestNode, mappingTable, screenNameArg, result, outcome,
                   geminiResponse, backendCalls>>

\* getRequiredImports on IR components of mapped kinds
Calls_getRequiredImports ==
    /\ \E components \in
            SeqsUpTo({IRComponent("input", UNDEF, "Email", "text", UNDEF),
                      IRComponent("button", "Sign In", UNDEF, UNDEF, "primary"),
                      IRComponent("heading", "Login", UNDEF, UNDEF, UNDEF)}, MaxComps) :
         LET returned(r) ==
                 [fn |-> "getRequiredImports", arg |-> components,
                  ok |-> r.ok, ret |-> r.val, err |-> r.err,
                  built |-> IF call.fn = "none" THEN {} ELSE call.built]
         IN call' = returned(getRequiredImports(components))
    /\ UNCHANGED <<layoutVars, pc, mode, figmaLayoutJSON, requestNode, mappingTable, screenNameArg, result, outcome,
                   geminiResponse, backendCalls>>

\* extractCodeBlock on a reply of two labelled blocks of different languages,
\* each body set off from its fences by white space; body is the body of the
\* block of the language asked for.
Calls_extractCodeBlock ==
    /\ \E l1, l2, language \in LanguageSet :
         \E b1, b2 \in {<<TsStyleUrl>>,
                        <<TsDecorator, NL, TsStyleUrl, NL, ExportClass("Login")>>} :
            LET block(l, b) == <<FENCE, l, NL, " ">> \o b \o <<" ", NL, FENCE, NL>>
                response == <<Prose, NL>> \o block(l1, b1) \o block(l2, b2)
                record(r) ==
                    [fn |-> "extractCodeBlock", language |-> language,
                     response |-> response,
                     present |-> language \in {l1, l2},
                     body |-> IF language = l1 THEN b1
                              ELSE IF language = l2 THEN b2 ELSE <<>>,
                     ok |-> r.ok, file |-> r.val, err |-> r.err,
                     built |-> IF call.fn = "none" THEN {} ELSE call.built]
            IN /\ l1 # l2
               /\ call' = record(extractCodeBlock(response, language, "Login"))
    /\ UNCHANGED <<layoutVars, pc, mode, figmaLayoutJSON, requestNode, mappingTable, screenNameArg, result, outcome,
                   geminiResponse, backendCalls>>

\* validateHtmlTemplate on templates of up to two elements, with an empty
\* and a non-empty error list.
Calls_validateHtmlTemplate ==
    /\ \E content \in SeqsUpTo({HtmlPlainButton, HtmlPButton, HtmlPInput, HtmlDiv}, 2) :
         \E errors \in {<<>>, <<"Missing scss file">>} :
            call' = [fn |-> "validateHtmlTemplate", content |-> content,
                     before |-> errors, errors |-> validateHtmlTemplate(content, errors),
                     built |-> IF call.fn = "none" THEN {} ELSE call.built]
    /\ UNCHANGED <<layoutVars, pc, mode, figmaLayoutJSON, requestNode, mappingTable, screenNameArg, result, outcome,
                   geminiResponse, backendCalls>>

\* prepareFilesForExport on file sets whose artifacts are each absent,
\* present with content, or present with empty content.
Calls_prepareFilesForExport ==
    /\ \E kind \in [LanguageSet -> {"absent", "content", "empty"}] :
         LET file(l) ==
                 IF kind[l] = "absent" THEN NoFile
                 ELSE File(FALSE, "login.component." \o getFileExtension(l),
                           IF kind[l] = "content" THEN GoodContent(l) ELSE <<>>, l)
             record(fs) ==
                 [fn |-> "prepareFilesForExport", files |-> fs,
                  ret |-> prepareFilesForExport(fs),
                  built |-> IF call.fn = "none" THEN {} ELSE call.built]
         IN call' = record(Files(file("typescript"), file("html"), file("scss"), <<>>))
    /\ UNCHANGED <<layoutVars, pc, mode, figmaLayoutJSON, requestNode, mappingTable, screenNameArg, result, outcome,
                   geminiResponse, backendCalls>>

NextCalls ==
    \/ Calls_buildAngularPrompt
    \/ Calls_getRequiredImports
    \/ Calls_extractCodeBlock
    \/ Calls_validateHtmlTemplate
    \/ Calls_prepareFilesForExport

SpecCalls == InitLib /\ [][NextCalls]_vars

C27_NoDanglingStage2Reference ==
    (call.fn = "buildAngularPrompt" /\ call.ok) =>
        LET has(line) == \E i \in 1..Len(call.prompt) : call.prompt[i] = line
        IN (\/ has("- MANDATORY: Include ALL inferred @Input() properties from Stage 2 section above")
            \/ has("- MANDATORY: Apply ALL template bindings from Stage 2 section above"))
              => has("STAGE 2 INPUT INFERENCE (MANDATORY):")

\* C18: getRequiredImports returns the import names of the mapping entries of
\* all given components, each name once, and every reordering of the
\* components gives the same set of names.
C18_ImportsDeduplicated ==
    call.fn = "getRequiredImports" =>
        LET names(seq) == {seq[i] : i \in 1..Len(seq)}
            n == Len(call.arg)
        IN /\ call.ok
           /\ \A i, j \in 1..Len(call.ret) : call.ret[i] = call.ret[j] => i = j
           /\ names(call.ret) =
                 UNION {names(COMPONENT_MAPPING[call.arg[i].type].imports) : i \in 1..n}
           /\ \A f \in Permutations(1..n) :
                 names(getRequiredImports([i \in 1..n |-> call.arg[f[i]]]).val)
                     = names(call.ret)

\* Two buttons and an input: two names are returned.
C18_Witness ==
    /\ call.fn = "getRequiredImports" /\ call.ok
    /\ Len(call.arg) = 3
    /\ Cardinality({i \in 1..3 : call.arg[i].type = "button"}) = 2
    /\ call.ret = <<"ButtonModule", "InputTextModule">>

\* C16: the styleUrl -> styleUrls repair is applied to the typescript
\* artifact only; the content of an html or scss artifact is exactly the
\* trimmed body of the matched block, and that of a typescript artifact is
\* the trimmed body with every singular styleUrl field rewritten.
C16_RepairTypescriptOnly ==
    (call.fn = "extractCodeBlock" /\ call.present) =>
        /\ call.ok
        /\ IF call.language = "typescript"
           THEN call.file.content =
                   [i \in 1..Len(call.body) |->
                       IF call.body[i] = TsStyleUrl THEN TsStyleUrls ELSE call.body[i]]
           ELSE call.file.content = call.body

\* A scss block with a singular styleUrl field was extracted unrepaired from
\* a reply whose typescript block has one too.
C16_Witness ==
    /\ call.fn = "extractCodeBlock" /\ call.ok /\ call.language = "scss"
    /\ call.file.content = <<TsStyleUrl>>
    /\ extractCodeBlock(call.response, "typescript", "Login").val.content = <<TsStyleUrls>>

\* The template of the last validateHtmlTemplate call has an element equal to tok.
HasElement(tok) == \E i \in 1..Len(call.content) : call.content[i] = tok

\* The last validateHtmlTemplate call appended the library-components error.
AppendedMissingPrimeNG ==
    \E i \in (Len(call.before) + 1)..Len(call.errors) :
        call.errors[i] = "HTML may be missing PrimeNG components"

\* C17 as stated: the error is appended exactly when the template contains
\* 'button' and no library button tag (p-button).
C17_ButtonWithoutLibraryButton ==
    call.fn = "validateHtmlTemplate" =>
        (AppendedMissingPrimeNG <=>
            (HasElement(HtmlPlainButton) /\ ~HasElement(HtmlPButton)))

\* C17 (amended): validateHtmlTemplate only appends to the error list, and it
\* appends 'HTML may be missing PrimeNG components' exactly when the template
\* contains 'button' and none of the library tags p-button, p-inputText,
\* p-password.
C17_ButtonWithoutLibraryTag ==
    call.fn = "validateHtmlTemplate" =>
        /\ SubSeq(call.errors, 1, Len(call.before)) = call.before
        /\ AppendedMissingPrimeNG <=>
              /\ HasElement(HtmlPlainButton)
              /\ ~HasElement(HtmlPButton) /\ ~HasElement(HtmlPInput)

\* A template with a plain button and a library text input passed.
C17_Witness ==
    /\ call.fn = "validateHtmlTemplate"
    /\ HasElement(HtmlPlainButton) /\ HasElement(HtmlPInput)
    /\ call.errors = call.before

\* C19 as stated: the export list has, in the order typescript, html, scss,
\* one entry for each artifact that is present in the file set.
C19_EntryForEveryPresent ==
    call.fn = "prepareFilesForExport" =>
        [i \in 1..Len(call.ret) |-> call.ret[i].type]
            = SelectSeq(Languages, LAMBDA l : ~call.files[l].isNull)

\* C19 (amended): the export list has, in the order typescript, html, scss,
\* exactly one entry {path = outputDir/fileName, content, type} for each
\* artifact that is present with non-empty content, and no entry for an
\* artifact that is absent or whose content is empty.
C19_EntryForEveryNonEmpty ==
    call.fn = "prepareFilesForExport" =>
        /\ [i \in 1..Len(call.ret) |-> call.ret[i].type]
              = SelectSeq(Languages, LAMBDA l : /\ ~call.files[l].isNull
                                               /\ call.files[l].content # <<>>)
        /\ \A i \in 1..Len(call.ret) :
              /\ call.ret[i].path
                    = "./src/app/components/" \o call.files[call.ret[i].type].fileName
              /\ call.ret[i].content = call.files[call.ret[i].type].content

\* typescript and scss with content, html present and empty: two entries.
C19_Witness ==
    /\ call.fn = "prepareFilesForExport"
    /\ ~call.files.html.isNull /\ call.files.html.content = <<>>
    /\ Len(call.ret) = 2
    /\ call.ret[1].type = "typescript" /\ call.ret[2].type = "scss"

-----------------------------------------------------------------------------
(* The mapping table and the entries its callers hold *)

MaxExtraImports == 1   \* most names a caller appends to one entry's imports

\* getComponentMapping(kind): the caller gets { ...mapping }, a new object
\* whose attributes and imports properties are the table's own object and array.
Tbl_getComponentMapping ==
    /\ \E kind \in {"heading", "input", "button"} :
         call' = [fn |-> "getComponentMapping", type |-> kind,
                  ret |-> getComponentMapping(kind).val]
    /\ UNCHANGED <<layoutVars, pc, mode, figmaLayoutJSON, requestNode, mappingTable,
                   screenNameArg, result, outcome, geminiResponse, backendCalls>>

\* The caller modifies the entry it was returned: it assigns to the tag,
\* sets an attribute, or appends a name to the imports.  The tag belongs to
\* the copy; the attributes object and the imports array are shared with
\* the table.
Tbl_modifyReturned ==
    /\ call.fn = "getComponentMapping"
    /\ \/ /\ call' = [call EXCEPT !.ret.tag = "span"]
          /\ UNCHANGED mappingTable
       \/ /\ call' = [call EXCEPT !.ret.attributes = @ \cup {"data-x"}]
          /\ mappingTable' = [mappingTable EXCEPT
                                ![call.type].attributes = @ \cup {"data-x"}]
       \/ /\ Len(call.ret.imports)
                < Len(COMPONENT_MAPPING[call.type].imports) + MaxExtraImports
          /\ call' = [call EXCEPT !.ret.imports = Append(@, "CustomModule")]
          /\ mappingTable' = [mappingTable EXCEPT
                                ![call.type].imports = Append(@, "CustomModule")]
    /\ UNCHANGED <<layoutVars, pc, mode, figmaLayoutJSON, requestNode, screenNameArg,
                   result, outcome, geminiResponse, backendCalls>>

\* getRequiredImports and validateComponentMappings read the table.
Tbl_readTable ==
    /\ \E components \in SeqsUpTo({IRComponent("input", UNDEF, "Email", "text", UNDEF),
                                    IRComponent("button", "Go", UNDEF, UNDEF, "primary")},
                                   2) :
         \/ call' = [fn |-> "getRequiredImports", arg |-> components,
                     ret |-> getRequiredImports(components).val]
         \/ call' = [fn |-> "validateComponentMappings", arg |-> components,
                     ret |-> validateComponentMappings(components).ok]
    /\ UNCHANGED <<layoutVars, pc, mode, figmaLayoutJSON, requestNode, mappingTable,
                   screenNameArg, result, outcome, geminiResponse, backendCalls>>

NextTable == Tbl_getComponentMapping \/ Tbl_modifyReturned \/ Tbl_readTable

SpecTable == InitLib /\ [][NextTable]_vars

\* C24: the mapping table is read-only at runtime: after any sequence of
\* getComponentMapping, getRequiredImports and validateComponentMappings
\* calls, and after a caller has modified any part of an entry it was
\* returned, getComponentMapping returns for every kind the entry it
\* returned at start-up.
C24_TableReadOnly ==
    \A kind \in DOMAIN COMPONENT_MAPPING :
        getComponentMapping(kind).val = COMPONENT_MAPPING[kind]

-----------------------------------------------------------------------------
(* Schema validator and enhancer (layout-json-schema.js) *)

Section(section_name, componentsKind, components) ==
    [section_name |-> section_name, componentsKind |-> componentsKind,
     components |-> components]

AllSectionComponents(doc) ==
    {<<i, j>> \in (1..Len(doc.sections)) \X (1..MaxSectionComps + 1) :
        j <= Len(doc.sections[i].components)}

\* validate(raw) -> {valid, errors, warnings}: a missing required top-level
\* field, a section whose components is not a sequence and a componentKey
\* outside the allow-list are errors; a missing canvas size is a warning.
validateLayoutJSON(doc) ==
    LET errors ==
            {"missing required field" : x \in
                {f \in {doc.screenType, doc.application_type, doc.layout_archetype} :
                    Falsy(f)}}
            \cup (IF doc.sectionsKind # "array" THEN {"missing required field"} ELSE {})
            \cup {"components must be an array" : i \in
                    {k \in 1..Len(doc.sections) : doc.sections[k].componentsKind # "array"}}
            \cup {"invalid componentKey" : ij \in
                    {p \in AllSectionComponents(doc) :
                        doc.sections[p[1]].components[p[2]].componentKey \notin AllowedKeys}}
        warnings == IF doc.canvas_size = NoSize THEN {"missing canvas_size"} ELSE {}
    IN [valid |-> errors = {}, errors |-> errors, warnings |-> warnings]

RECURSIVE CountComponents(_)
CountComponents(sections) ==
    IF sections = <<>> THEN 0
    ELSE Len(Head(sections).components) + CountComponents(Tail(sections))

MaxComplexity == 10

\* enhance(validatedRaw): the document with its derived layout metadata.
enhanceLayoutJSON(doc) ==
    LET n == CountComponents(doc.sections)
        inputs == {p \in AllSectionComponents(doc) :
                     doc.sections[p[1]].components[p[2]].componentKey = "text_input"}
    IN [doc EXCEPT !.enhanced = TRUE,
                   !.complexity_score = IF n < 1 THEN 1
                                        ELSE IF n > MaxComplexity THEN MaxComplexity ELSE n,
                   !.primary_user_flow = IF Cardinality(inputs) > 1 THEN "input" ELSE "browse",
                   !.content_density = "medium"]

-----------------------------------------------------------------------------
(* POST /generate-layout (backend-server.js) *)

Response(status, error) == [status |-> status, error |-> error]

Success == Response(200, "")

Respond(r) ==
    /\ responses' = Append(responses, r)
    /\ pc' = "done"
    /\ outcome' = "returned"

LayoutDocuments ==
    LET LayoutSectionComponents ==
            {Component(FALSE, "heading", "Login"), Component(FALSE, "custom_widget", "x")}
        LayoutSections ==
            {Section("form", "missing", <<>>)}
            \cup {Section("form", "array", cs) :
                    cs \in SeqsUpTo(LayoutSectionComponents, MaxSectionComps)}
    IN {LayoutDocument(st, app, arch, cs, "missing", <<>>) :
            st \in {"web"}, app \in {"auth"}, arch \in {"auth_flow"},
            cs \in {Size(400, 600)}}
       \cup {LayoutDocument(st, app, arch, cs, "array", secs) :
               st \in {"web", "mobile", UNDEF}, app \in {"auth", UNDEF},
               arch \in {"auth_flow", "mobile_form", "bogus_archetype", "constructor",
                         UNDEF},
               cs \in {Size(400, 600), NoSize},
               secs \in SeqsUpTo(LayoutSections, MaxSections)}

\* The first step with the refusal not ending the handler: the prompt is
\* sent to the backend after the 400 response too.
L_Receive_noReturn ==
    /\ pc = "start" /\ mode = "layout"
    /\ \E userPrompt \in {"Create a login screen", UNDEF} :
         /\ responses' = IF Falsy(userPrompt)
                         THEN Append(responses, Response(400, "userPrompt is required"))
                         ELSE responses
         /\ pc' = "awaitGemini"
         /\ backendCalls' = backendCalls + 1
         /\ UNCHANGED outcome
    /\ UNCHANGED <<layoutDoc, mode, figmaLayoutJSON, requestNode, mappingTable, screenNameArg, result,
                   geminiResponse, call>>

\* the request arrives; without a userPrompt it is refused, otherwise the
\* prompt is sent to the backend
L_Receive ==
    /\ pc = "start" /\ mode = "layout"
    /\ \E userPrompt \in {"Create a login screen", UNDEF} :
         IF Falsy(userPrompt)
         THEN Respond(Response(400, "userPrompt is required")) /\ UNCHANGED backendCalls
         ELSE /\ pc' = "awaitGemini"
              /\ backendCalls' = backendCalls + 1
              /\ UNCHANGED <<responses, outcome>>
    /\ UNCHANGED <<layoutDoc, mode, figmaLayoutJSON, requestNode, mappingTable, screenNameArg, result,
                   geminiResponse, call>>

\* the backend call settles: a rejection, text without JSON, text whose JSON
\* does not parse, or a parsed document
L_GeminiSettles ==
    /\ pc = "awaitGemini" /\ mode = "layout"
    /\ \/ /\ Respond(Response(500, "Internal server error"))
          /\ UNCHANGED layoutDoc
       \/ /\ Respond(Response(500, "No valid JSON found in AI response"))
          /\ UNCHANGED layoutDoc
       \/ /\ Respond(Response(500, "Invalid JSON from AI response"))
          /\ UNCHANGED layoutDoc
       \/ \E doc \in LayoutDocuments :
             /\ layoutDoc' = doc
             /\ pc' = "validate"
             /\ UNCHANGED <<responses, outcome>>
    /\ UNCHANGED <<mode, figmaLayoutJSON, requestNode, mappingTable, screenNameArg, result, geminiResponse,
                   backendCalls, call>>

\* The validation step without its early return.
L_Validate_noReturn ==
    /\ pc = "validate" /\ mode = "layout"
    /\ pc' = "enhance"
    /\ UNCHANGED <<responses, outcome, layoutDoc, mode, figmaLayoutJSON, requestNode, mappingTable, screenNameArg,
                   result, geminiResponse, backendCalls, call>>

\* PHASE 4: schema validation
L_Validate ==
    /\ pc = "validate" /\ mode = "layout"
    /\ IF ~validateLayoutJSON(layoutDoc).valid
       THEN Respond(Response(500, "Layout JSON failed schema validation"))
       ELSE pc' = "enhance" /\ UNCHANGED <<responses, outcome>>
    /\ UNCHANGED <<layoutDoc, mode, figmaLayoutJSON, requestNode, mappingTable, screenNameArg, result,
                   geminiResponse, backendCalls, call>>

\* PHASE 4: enhancement
L_Enhance ==
    /\ pc = "enhance" /\ mode = "layout"
    /\ layoutDoc' = enhanceLayoutJSON(layoutDoc)
    /\ pc' = "structure"
    /\ UNCHANGED <<responses, outcome, mode, figmaLayoutJSON, requestNode, mappingTable, screenNameArg, result,
                   geminiResponse, backendCalls, call>>

\* The archetype step with the canvas size always set from the archetype.
L_Archetype_alwaysResize ==
    /\ pc = "structure" /\ mode = "layout"
    /\ LET archetypeConfig == getArchetypeConfig(layoutDoc.layout_archetype) IN
       IF \/ Falsy(layoutDoc.screenType) \/ Falsy(layoutDoc.application_type)
          \/ Falsy(layoutDoc.layout_archetype) \/ layoutDoc.sectionsKind # "array"
       THEN /\ Respond(Response(500, "Invalid JSON structure from AI"))
            /\ UNCHANGED layoutDoc
       ELSE IF archetypeConfig.missing
       THEN /\ Respond(Response(500, "Invalid layout archetype from AI"))
            /\ UNCHANGED layoutDoc
       ELSE /\ layoutDoc' =
                  [layoutDoc EXCEPT
                     !.canvas_size = getCanvasSize(archetypeConfig.config.canvas_type)]
            /\ pc' = "components"
            /\ UNCHANGED <<responses, outcome>>
    /\ UNCHANGED <<mode, figmaLayoutJSON, requestNode, mappingTable, screenNameArg, result, geminiResponse,
                   backendCalls, call>>

\* the structure check, then PHASE 2 and 3: archetype and canvas size
L_Archetype ==
    /\ pc = "structure" /\ mode = "layout"
    /\ LET archetypeConfig == getArchetypeConfig(layoutDoc.layout_archetype) IN
       IF \/ Falsy(layoutDoc.screenType) \/ Falsy(layoutDoc.application_type)
          \/ Falsy(layoutDoc.layout_archetype) \/ layoutDoc.sectionsKind # "array"
       THEN /\ Respond(Response(500, "Invalid JSON structure from AI"))
            /\ UNCHANGED layoutDoc
       ELSE IF archetypeConfig.missing
       THEN /\ Respond(Response(500, "Invalid layout archetype from AI"))
            /\ UNCHANGED layoutDoc
       ELSE /\ layoutDoc' =
                  IF layoutDoc.canvas_size.width = 0 \/ layoutDoc.canvas_size.height = 0
                  THEN [layoutDoc EXCEPT
                          !.canvas_size = getCanvasSize(archetypeConfig.config.canvas_type)]
                  ELSE layoutDoc
            /\ pc' = "components"
            /\ UNCHANGED <<responses, outcome>>
    /\ UNCHANGED <<mode, figmaLayoutJSON, requestNode, mappingTable, screenNameArg, result, geminiResponse,
                   backendCalls, call>>

\* component keys across all sections, the flat components array, the
\* response.  A section whose components is not an array gets an error
\* response from inside the loop; the loop and the handler go on, and the
\* next attempt to respond raises, in the catch block too.
L_Components ==
    /\ pc = "components" /\ mode = "layout"
    /\ LET bad == {i \in 1..Len(layoutDoc.sections) :
                     layoutDoc.sections[i].componentsKind # "array"}
           invalidComponents ==
               {p \in AllSectionComponents(layoutDoc) :
                  layoutDoc.sections[p[1]].components[p[2]].componentKey \notin AllowedKeys}
       IN IF bad # {}
          THEN /\ responses' = Append(responses,
                                  Response(500, "Section has invalid components array"))
               /\ pc' = "done"
               /\ outcome' = "threw"
          ELSE IF invalidComponents # {}
          THEN Respond(Response(500, "AI used invalid component keys"))
          ELSE Respond(Success)
    /\ UNCHANGED <<layoutDoc, mode, figmaLayoutJSON, requestNode, mappingTable, screenNameArg, result,
                   geminiResponse, backendCalls, call>>

InitLayout ==
    /\ pc = "start"
    /\ mode = "layout"
    /\ figmaLayoutJSON = NullLayout
    /\ requestNode = NoFigmaNode
    /\ mappingTable = COMPONENT_MAPPING
    /\ screenNameArg = UNDEF
    /\ result = NewResult
    /\ outcome = "pending"
    /\ geminiResponse = <<>>
    /\ backendCalls = 0
    /\ call = NoCall
    /\ layoutDoc = NoLayoutDoc
    /\ responses = <<>>

NextLayout ==
    \/ L_Receive \/ L_GeminiSettles \/ L_Validate \/ L_Enhance
    \/ L_Archetype \/ L_Components

SpecLayout == InitLayout /\ [][NextLayout]_vars

\* C7: the layout endpoint never answers with success for a document whose
\* layout_archetype is not a key of the archetype table; such a document,
\* once it reaches archetype resolution, ends in the "Invalid layout
\* archetype from AI" error response.
C7_UnknownArchetypeRejected ==
    (pc = "done" /\ layoutDoc.enhanced
       /\ ~Falsy(layoutDoc.layout_archetype)
       /\ layoutDoc.layout_archetype \notin DOMAIN LAYOUT_ARCHETYPES)
        => responses = <<Response(500, "Invalid layout archetype from AI")>>

\* C14: on the layout path, a document for which validation reports
\* valid = false ends the request with the schema-validation error response,
\* and neither enhancement, archetype resolution nor any later stage runs.
C14_InvalidStopsRequest ==
    (pc \notin {"start", "awaitGemini", "validate"}
       /\ layoutDoc # NoLayoutDoc /\ ~validateLayoutJSON(layoutDoc).valid)
        => /\ pc = "done" /\ outcome = "returned"
           /\ responses = <<Response(500, "Layout JSON failed schema validation")>>
           /\ ~layoutDoc.enhanced

\* A document with a component outside the allow-list was refused.
C14_Witness ==
    /\ pc = "done" /\ layoutDoc # NoLayoutDoc
    /\ "invalid componentKey" \in validateLayoutJSON(layoutDoc).errors
    /\ responses = <<Response(500, "Layout JSON failed schema validation")>>

\* The components of the received document whose key is outside the allow-list.
OutsideComponents ==
    {p \in AllSectionComponents(layoutDoc) :
        layoutDoc.sections[p[1]].components[p[2]].componentKey \notin AllowedKeys}

\* C15 as stated: a finished request whose document has a component outside
\* the allow-list was answered with 'AI used invalid component keys'.
C15_FailsWithInvalidKeys ==
    (pc = "done" /\ layoutDoc # NoLayoutDoc /\ OutsideComponents # {})
        => responses = <<Response(500, "AI used invalid component keys")>>

\* C15 (amended): the allow-list has nine entries; the layout endpoint answers
\* with success only if every component of every section has a componentKey
\* in it, and a document with a component outside the list is answered with
\* an error response and never with success.
C15_SuccessOnlyAllowListed ==
    /\ Len(ALLOWED_COMPONENT_KEYS) = 9
    /\ (pc = "done" /\ layoutDoc # NoLayoutDoc) =>
          /\ (\E i \in 1..Len(responses) : responses[i] = Success)
                => OutsideComponents = {}
          /\ OutsideComponents # {}
                => /\ responses # <<>>
                   /\ \A i \in 1..Len(responses) : responses[i].status = 500

\* A document with two sections of allow-listed components was answered with
\* success.
C15_Witness ==
    /\ pc = "done" /\ responses = <<Success>>
    /\ Len(layoutDoc.sections) = 2
    /\ \A i \in 1..2 : Len(layoutDoc.sections[i].components) >= 1

C23_EnhancedNeverModified ==
    [][layoutDoc.enhanced => layoutDoc' = layoutDoc]_vars

\* C23 (amended): once the document is enhanced, the only change a step of
\* the layout path makes to it is in the archetype step, which sets a canvas
\* size that is missing or has no width or height to the size of the
\* archetype's canvas type; every other field stays as the Enhancer left it.
C23_OnlyCanvasSizeDefaulted ==
    [][layoutDoc.enhanced =>
         \/ layoutDoc' = layoutDoc
         \/ /\ pc = "structure"
            /\ layoutDoc.canvas_size.width = 0 \/ layoutDoc.canvas_size.height = 0
            /\ layoutDoc' =
                  [layoutDoc EXCEPT !.canvas_size =
                      getCanvasSize(getArchetypeConfig(
                          layoutDoc.layout_archetype).config.canvas_type)]]_vars

\* A document that came without a canvas size was answered with success and
\* has the size of its archetype's canvas.
C23_Witness ==
    /\ pc = "done" /\ responses = <<Success>> /\ layoutDoc.enhanced
    /\ layoutDoc.layout_archetype = "mobile_form"
    /\ layoutDoc.canvas_size = CANVAS_SIZES.mobile

====
